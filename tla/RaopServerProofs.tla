-------------------------- MODULE RaopServerProofs --------------------------
(***************************************************************************)
(* The server and its connection, for any number of connections, sessions  *)
(* and starts.  raop_stop frees what the handlers share before it stops    *)
(* the thread they run in, so the invariant says for every place of        *)
(* raop_stop what the httpd thread may still be doing.                     *)
(***************************************************************************)
EXTENDS RaopServer, FiniteSetTheorems, TLAPS

(* The places of raop_stop. *)
Stopping == {"raop_stop", "renew", "httpd_stop", "join"}

Serving == net \in {"on", "stopping"}

(* The httpd thread is waited for before anything goes on without it.      *)
NetInv ==
  /\ pc \in {"unregister", "dnssd_destroy", "raop_destroy"} => net = "off"
  /\ pc = "idle" /\ server # "running" => net = "off"
  /\ net = "stopping" => pc = "join"
  /\ ~Serving => ~open

(* Only an open connection has a request or sessions, and a SETUP that was *)
(* received has room for its session.                                      *)
ConnectionInv ==
  /\ ~open => req = "none" /\ rtp = 0 /\ mirror = 0
  /\ req = "SETUP" => made < MaxSessions

(* Shared objects are missing, or were missed, only while raop_stop is     *)
(* between freeing them and joining the thread.                            *)
SharedInv ==
  /\ lost => pc \in Exposed /\ req \notin {"none", "disconnect"}
  /\ Serving /\ ~live => pc = "renew"
  /\ Serving /\ ~hwaddr => pc \in Exposed

(* Where raop_stop returns to. *)
PlacesInv ==
  /\ pc # "idle" => server = "idle"
  /\ pc \in Stopping =>
       back \in {"idle", "dnssd_destroy", "unregister", "raop_destroy"}
  /\ pc = "dnssd_destroy" => back \in {"dnssd_destroy", "raop_stop again"}

(* The services are registered, the name is allocated. *)
Registered ==
  \/ pc \in {"airplay", "unregister"}
  \/ pc = "idle" /\ server = "running"
  \/ pc \in Stopping /\ back = "unregister"
Named ==
  \/ Registered \/ pc = "register"
  \/ pc \in Stopping \union {"dnssd_destroy"} /\ back = "dnssd_destroy"

ServicesInv ==
  /\ IF Registered THEN "raop" \in services ELSE services = {}
  /\ names = IF Named THEN "held"
             ELSE IF pc = "dnssd_destroy" THEN "freed" ELSE "none"
  /\ ~leaked

(* A session runs only while the connection points to it, or after a       *)
(* second SETUP has made the connection forget it.                         *)
SessionsInv ==
  \A s \in Sessions \ abandoned :
     /\ audio[s] = "running" => s = rtp
     /\ video[s] = "running" => s = mirror

(* Every key there is was made since the last renewal, and the open client *)
(* was told of none but its own: no client is left once the thread is, and *)
(* that is when the objects are renewed under it.                          *)
FreshKeys ==
  /\ secret # 0 => "secret" \in fresh
  /\ keymsg # 0 => "keymsg" \in fresh
OwnKeys ==
  /\ "signature" \in told => secret = conns
  /\ "key message" \in told => keymsg = conns
KeysInv ==
  /\ FreshKeys
  /\ pc \notin Exposed => OwnKeys
  /\ ~open => told = {}

IInv ==
  /\ TypeOK /\ NetInv /\ ConnectionInv /\ SharedInv /\ PlacesInv
  /\ ServicesInv /\ SessionsInv /\ NoDanglingSession /\ KeysInv

-----------------------------------------------------------------------------
(* Types *)

FlagsOK ==
  /\ open \in BOOLEAN /\ lost \in BOOLEAN /\ live \in BOOLEAN
  /\ hwaddr \in BOOLEAN /\ misuse \in BOOLEAN /\ leaked \in BOOLEAN

(* The types of what the handlers use. *)
ConnectionOK ==
  /\ net \in {"off", "on", "stopping", "exited"} /\ conns \in Nat
  /\ req \in Requests \union {"none", "disconnect", "crashed"}
  /\ rtp \in 0..made /\ mirror \in 0..made /\ made \in 0..MaxSessions
  /\ audio \in [Sessions -> {"none", "idle", "running"}]
  /\ video \in [Sessions -> {"none", "idle", "running"}]
  /\ abandoned \subseteq Sessions

PairingOK ==
  /\ status \in {"INITIAL", "SETUP", "HANDSHAKE", "FINISHED"}
  /\ gone \subseteq {"pairing", "fairplay"}
  /\ conns \in Nat /\ secret \in 0..conns /\ keymsg \in 0..conns
  /\ fresh \subseteq {"secret", "keymsg"}
  /\ told \subseteq {"signature", "key message"}

ControlOK ==
  /\ pc \in {"idle", "dnssd", "register", "airplay", "raop_stop", "renew",
             "httpd_stop", "join", "unregister", "dnssd_destroy",
             "raop_destroy"}
  /\ back \in {"none", "idle", "dnssd_destroy", "unregister", "raop_destroy",
               "raop_stop again"}
  /\ server \in {"none", "idle", "running"} /\ starts \in Nat
  /\ services \subseteq {"raop", "airplay"}
  /\ names \in {"none", "held", "freed"}

LEMMA TypeParts == TypeOK <=> FlagsOK /\ ConnectionOK /\ PairingOK /\ ControlOK
  BY Zenon DEF TypeOK, FlagsOK, ConnectionOK, PairingOK, ControlOK

-----------------------------------------------------------------------------
(* The handlers *)

(* Whatever the request, its handler answers it and leaves the thread, the *)
(* connection and the hardware address as they are.                        *)
HandleFrame ==
  /\ req \notin {"none", "disconnect"} /\ req' \in {"none", "disconnect"}
  /\ lost' = FALSE /\ (live' = live \/ live' = TRUE)
  /\ UNCHANGED <<net, hwaddr, conns, open>>

LEMMA HandleKeepsFrame == Handle => HandleFrame
<1> USE DEF HandleFrame, Answer, Disconnect, sessionVars, pairVars, connVars
<1>1. PairSetup \/ PairVerify1 \/ PairVerify0 => HandleFrame
  BY DEF PairSetup, PairVerify1, PairVerify0
<1>2. FpSetup \/ FpHandshake => HandleFrame
  BY DEF FpSetup, FpHandshake
<1>3. SetupSession \/ SetupMirror \/ SetupAudio \/ UnknownStream => HandleFrame
  BY DEF SetupSession, SetupMirror, SetupAudio, UnknownStream
<1>4. TeardownMirror \/ TeardownAudio => HandleFrame
  BY DEF TeardownMirror, TeardownAudio, raop_reset_pairing_session, Renewed
<1>5. Info \/ PostToAudio \/ NothingToDo => HandleFrame
  BY DEF Info, PostToAudio, NothingToDo
<1> QED  BY <1>1, <1>2, <1>3, <1>4, <1>5 DEF Handle

-----------------------------------------------------------------------------
(* The sessions of the connection *)

SessionsOK == ConnectionOK /\ ConnectionInv /\ SessionsInv /\ NoDanglingSession

\* What leaves the connection and its sessions alone keeps them in order.
LEMMA SessionsKept ==
  ASSUME SessionsOK, UNCHANGED <<open, rtp, mirror, sessionVars>>,
         net' \in {"off", "on", "stopping", "exited"}, conns' \in Nat,
         req' \in Requests \union {"none", "disconnect", "crashed"},
         req' # "none" => open,
         req' = "SETUP" => made < MaxSessions
  PROVE  SessionsOK'
<1> USE DEF SessionsOK, sessionVars
<1>1. ConnectionOK'  BY DEF ConnectionOK, Sessions
<1>2. ConnectionInv'  BY DEF ConnectionInv
<1>3. SessionsInv' /\ NoDanglingSession'
  BY DEF SessionsInv, NoDanglingSession, Sessions
<1> QED  BY <1>1, <1>2, <1>3

\* Destroying a session that the connection has leaves none.
LEMMA FreedState ==
  ASSUME NEW objects \in [Sessions -> {"none", "idle", "running"}],
         NEW s \in 0..MaxSessions
  PROVE  /\ Freed(objects, s) \in [Sessions -> {"none", "idle", "running"}]
         /\ \A t \in Sessions :
              Freed(objects, s)[t] = IF t = s THEN "none" ELSE objects[t]
  BY DEF Freed, Sessions

\* Starting a session the connection has: it stays, idle or running.
LEMMA StartedState ==
  ASSUME NEW objects \in [Sessions -> {"none", "idle", "running"}],
         NEW s \in Sessions, objects[s] \in {"idle", "running"},
         NEW then \in Started(objects, s)
  PROVE  /\ then \in [Sessions -> {"none", "idle", "running"}]
         /\ then[s] \in {"idle", "running"}
         /\ \A t \in Sessions \ {s} : then[t] = objects[t]
  BY DEF Started

\* Both sessions of the connection destroyed, and its pointers to them cleared.
LEMMA SessionsFreed ==
  ASSUME SessionsOK, BoundsAssumption,
         audio' = Freed(audio, rtp), video' = Freed(video, mirror),
         rtp' = 0, mirror' = 0, UNCHANGED <<made, abandoned, conns>>,
         net' \in {"off", "on", "stopping", "exited"},
         req' \in {"none", "disconnect"}, req' # "none" => open'
  PROVE  SessionsOK'
<1> USE DEF SessionsOK
<1>1. rtp \in 0..MaxSessions /\ mirror \in 0..MaxSessions
  BY BoundsAssumption DEF ConnectionOK
<1>2. /\ audio' \in [Sessions -> {"none", "idle", "running"}]
      /\ video' \in [Sessions -> {"none", "idle", "running"}]
      /\ \A t \in Sessions :
           /\ audio'[t] = IF t = rtp THEN "none" ELSE audio[t]
           /\ video'[t] = IF t = mirror THEN "none" ELSE video[t]
  BY <1>1, FreedState DEF ConnectionOK
<1>3. ConnectionOK'  BY <1>2 DEF ConnectionOK, Sessions
<1>4. ConnectionInv' /\ NoDanglingSession'
  BY DEF ConnectionInv, NoDanglingSession
<1>5. SessionsInv'  BY <1>2 DEF SessionsInv, Sessions
<1> QED  BY <1>3, <1>4, <1>5

\* Whatever the httpd thread does, the connection points to sessions that exist,
\* and the sessions it does not point to are idle, freed or abandoned.
LEMMA SessionsStep ==
  ASSUME SessionsOK, BoundsAssumption, Serve
  PROVE  SessionsOK'
<1> USE DEF SessionsOK
<1> DEFINE States == {"none", "idle", "running"}
<1>1. /\ rtp \in 0..MaxSessions /\ mirror \in 0..MaxSessions
      /\ rtp # 0 => rtp \in Sessions /\ audio[rtp] \in {"idle", "running"}
      /\ mirror # 0 => mirror \in Sessions /\ video[mirror] \in {"idle", "running"}
      /\ audio \in [Sessions -> States] /\ video \in [Sessions -> States]
  BY BoundsAssumption DEF ConnectionOK, NoDanglingSession, Sessions
<1>2. CASE Accept
  <2>1. /\ ~open /\ open' /\ req = "none" /\ req' = "none"
        /\ UNCHANGED <<net, rtp, mirror, sessionVars>>
        /\ conns' \in Nat
    BY <1>2 DEF Accept, ConnectionOK
  <2>2. ConnectionOK'  BY <2>1 DEF sessionVars, ConnectionOK, Sessions
  <2>3. ConnectionInv'  BY <2>1 DEF ConnectionInv
  <2>4. SessionsInv' /\ NoDanglingSession'
    BY <2>1 DEF sessionVars, SessionsInv, NoDanglingSession, Sessions
  <2> QED  BY <2>2, <2>3, <2>4
<1>3. CASE Close
  BY <1>3, SessionsFreed DEF Close, conn_destroy, ConnectionOK
<1>4. CASE Exit
  <2>1. CASE open
    BY <1>4, <2>1, SessionsFreed DEF Exit, conn_destroy, ConnectionOK
  <2>2. CASE ~open
    BY <1>4, <2>2, SessionsKept DEF Exit, connVars, sessionVars, ConnectionOK
  <2> QED  BY <2>1, <2>2
<1>5. ASSUME NEW r \in Requests, conn_request(r) PROVE SessionsOK'
  <2>1. /\ open /\ req' = r /\ r \notin {"none", "disconnect"}
        /\ r = "SETUP" => made < MaxSessions
        /\ UNCHANGED <<net, conns, open, rtp, mirror, sessionVars>>
    BY <1>5 DEF conn_request, connVars, Requests
  <2>2. net' \in {"off", "on", "stopping", "exited"} /\ conns' \in Nat
    BY <2>1 DEF ConnectionOK
  <2>3. req' \in Requests \union {"none", "disconnect", "crashed"}  BY <1>5, <2>1
  <2> QED  BY <2>1, <2>2, <2>3, SessionsKept
<1>6. CASE Handle
  <2>1. HandleFrame /\ open  BY <1>6, HandleKeepsFrame DEF HandleFrame, ConnectionInv
  <2>2. ASSUME UNCHANGED <<connVars, sessionVars>> PROVE SessionsOK'
    BY <2>1, <2>2, SessionsKept DEF HandleFrame, connVars, sessionVars, ConnectionOK
  <2>3. CASE \/ PairSetup \/ PairVerify1 \/ PairVerify0 \/ FpSetup \/ FpHandshake
            \/ UnknownStream \/ Info \/ PostToAudio \/ NothingToDo
    <3>1. UNCHANGED <<connVars, sessionVars>>
      BY <2>3 DEF PairSetup, PairVerify1, PairVerify0, FpSetup, FpHandshake,
                  UnknownStream, Info, PostToAudio, NothingToDo
    <3> QED  BY <2>2, <3>1
  <2>4. CASE TeardownMirror
    <3>1. /\ audio' = Freed(audio, rtp) /\ video' = Freed(video, mirror)
          /\ rtp' = 0 /\ mirror' = 0 /\ UNCHANGED <<made, abandoned>>
      BY <2>4 DEF TeardownMirror
    <3>2. /\ net' \in {"off", "on", "stopping", "exited"} /\ conns' = conns
          /\ req' \in {"none", "disconnect"} /\ open'
      BY <2>1 DEF HandleFrame, ConnectionOK
    <3> QED  BY <3>1, <3>2, SessionsFreed
  <2>5. CASE TeardownAudio
    <3>1. /\ audio' \in [Sessions -> States]
          /\ rtp # 0 => audio'[rtp] = "idle"
          /\ \A s \in Sessions : s # rtp => audio'[s] = audio[s]
      BY <1>1, <2>5 DEF TeardownAudio
    <3>2. UNCHANGED <<connVars, made, video, abandoned>>  BY <2>5 DEF TeardownAudio
    <3>3. ConnectionOK'
      BY <2>1, <3>1, <3>2 DEF HandleFrame, connVars, ConnectionOK, Sessions
    <3>4. ConnectionInv'  BY <2>1, <3>2 DEF HandleFrame, connVars, ConnectionInv
    <3>5. SessionsInv' /\ NoDanglingSession'
      BY <1>1, <3>1, <3>2 DEF connVars, SessionsInv, NoDanglingSession, Sessions
    <3> QED  BY <3>3, <3>4, <3>5
  <2>6. CASE SetupMirror
    <3>1. CASE mirror = 0
      <4>1. UNCHANGED <<connVars, sessionVars>>
        BY <2>6, <3>1 DEF SetupMirror, sessionVars
      <4> QED  BY <2>2, <4>1
    <3>2. CASE mirror # 0
      <4>0. video' \in Started(video, mirror)
        BY <2>6, <3>2 DEF SetupMirror
      <4>1. /\ video' \in [Sessions -> States]
            /\ video'[mirror] \in {"idle", "running"}
            /\ \A s \in Sessions \ {mirror} : video'[s] = video[s]
        BY <1>1, <3>2, <4>0, StartedState
      <4>2. UNCHANGED <<connVars, made, audio, abandoned>>  BY <2>6 DEF SetupMirror
      <4>3. ConnectionOK'
        BY <2>1, <4>1, <4>2 DEF HandleFrame, connVars, ConnectionOK, Sessions
      <4>4. ConnectionInv'  BY <2>1, <4>2 DEF HandleFrame, connVars, ConnectionInv
      <4>5. SessionsInv' /\ NoDanglingSession'
        BY <1>1, <3>2, <4>1, <4>2 DEF connVars, SessionsInv, NoDanglingSession, Sessions
      <4> QED  BY <4>3, <4>4, <4>5
    <3> QED  BY <3>1, <3>2
  <2>7. CASE SetupAudio
    <3>1. CASE rtp = 0
      <4>1. UNCHANGED <<connVars, sessionVars>>
        BY <2>7, <3>1 DEF SetupAudio, sessionVars
      <4> QED  BY <2>2, <4>1
    <3>2. CASE rtp # 0
      <4>0. audio' \in Started(audio, rtp)
        BY <2>7, <3>2 DEF SetupAudio
      <4>1. /\ audio' \in [Sessions -> States]
            /\ audio'[rtp] \in {"idle", "running"}
            /\ \A s \in Sessions \ {rtp} : audio'[s] = audio[s]
        BY <1>1, <3>2, <4>0, StartedState
      <4>2. UNCHANGED <<connVars, made, video, abandoned>>  BY <2>7 DEF SetupAudio
      <4>3. ConnectionOK'
        BY <2>1, <4>1, <4>2 DEF HandleFrame, connVars, ConnectionOK, Sessions
      <4>4. ConnectionInv'  BY <2>1, <4>2 DEF HandleFrame, connVars, ConnectionInv
      <4>5. SessionsInv' /\ NoDanglingSession'
        BY <1>1, <3>2, <4>1, <4>2 DEF connVars, SessionsInv, NoDanglingSession, Sessions
      <4> QED  BY <4>3, <4>4, <4>5
    <3> QED  BY <3>1, <3>2
  <2>8. CASE SetupSession
    <3>1. made < MaxSessions /\ made' = made + 1
      BY <2>8 DEF SetupSession, Answer, ConnectionInv
    <3>2. PICK m \in {0, made'}, a \in {0, made'} :
            /\ mirror' = m /\ rtp' = a
            /\ video' = IF m = 0 THEN video ELSE [video EXCEPT ![m] = "idle"]
            /\ audio' = IF a = 0 THEN audio ELSE [audio EXCEPT ![a] = "idle"]
      BY <2>8 DEF SetupSession
    <3>3. abandoned' = abandoned \union ({mirror, rtp} \ {0})
      BY <2>8 DEF SetupSession
    <3>4. made' \in Sessions /\ made' \in Nat
      BY <3>1, BoundsAssumption DEF Sessions, ConnectionOK
    <3>5. /\ audio' \in [Sessions -> States] /\ video' \in [Sessions -> States]
          /\ rtp' # 0 => audio'[rtp'] = "idle"
          /\ mirror' # 0 => video'[mirror'] = "idle"
          /\ \A s \in Sessions :
               /\ audio'[s] = "running" => audio[s] = "running"
               /\ video'[s] = "running" => video[s] = "running"
      BY <1>1, <3>2, <3>4
    <3>6. ConnectionOK'
      BY <1>1, <2>1, <3>1, <3>2, <3>3, <3>4, <3>5, BoundsAssumption
         DEF HandleFrame, ConnectionOK, Sessions
    <3>7. ConnectionInv'  BY <2>1 DEF HandleFrame, ConnectionInv
    <3>8. NoDanglingSession'  BY <3>5 DEF NoDanglingSession
    <3>9. SessionsInv'
      BY <3>3, <3>5, BoundsAssumption DEF SessionsInv, Sessions
    <3> QED  BY <3>6, <3>7, <3>8, <3>9
  <2> QED  BY <1>6, <2>3, <2>4, <2>5, <2>6, <2>7, <2>8 DEF Handle
<1>7. CASE Crash
  <2>1. /\ req' = "crashed" /\ req # "none"
        /\ UNCHANGED <<net, connVars, sessionVars>>
    BY <1>7 DEF Crash, Needs
  <2>2. /\ net' \in {"off", "on", "stopping", "exited"} /\ conns' \in Nat
        /\ open /\ UNCHANGED <<open, rtp, mirror, sessionVars>>
    BY <2>1 DEF ConnectionOK, ConnectionInv, connVars
  <2> QED  BY <2>1, <2>2, SessionsKept
<1> QED  BY <1>2, <1>3, <1>4, <1>5, <1>6, <1>7 DEF Serve
-----------------------------------------------------------------------------
(* Pairing and FairPlay *)

PairingInv == PairingOK /\ KeysInv

LEMMA PairingKept ==
  ASSUME PairingInv, UNCHANGED <<gone, status, secret, keymsg, fresh, told, conns>>,
         pc' \in Exposed \/ pc \notin Exposed \/ told = {},
         open' \/ ~open \/ told = {}
  PROVE  PairingInv'
  BY DEF PairingInv, PairingOK, KeysInv, FreshKeys, OwnKeys

\* Objects made again hold nothing, and whoever was told of what they held is gone
\* or at the mercy of raop_stop.
LEMMA PairingRenewed ==
  ASSUME PairingInv, pairing_session_init, keymsg' = 0, fresh' = {},
         gone' \subseteq {"pairing", "fairplay"}, conns' = conns,
         told' = {} \/ (told' = told /\ pc' \in Exposed /\ open' = open)
  PROVE  PairingInv'
<1>1. PairingOK'
  <2>0. conns \in Nat  BY DEF PairingInv, PairingOK
  <2>1. conns' \in Nat /\ 0 \in 0..conns'  BY <2>0
  <2>2. fresh' \subseteq {"secret", "keymsg"}  OBVIOUS
  <2>3. told' \subseteq {"signature", "key message"}  BY DEF PairingInv, PairingOK
  <2> QED  BY <2>1, <2>2, <2>3 DEF PairingOK, pairing_session_init
<1>2. KeysInv'
  BY DEF PairingInv, PairingOK, KeysInv, FreshKeys, OwnKeys, pairing_session_init
<1> QED  BY <1>1, <1>2 DEF PairingInv

\* The end of a connection leaves the keys where they are.
LEMMA PairingLeft ==
  ASSUME PairingInv, told' = {}, conns' \in {conns, conns + 1},
         UNCHANGED pairVars
  PROVE  PairingInv'
<1>1. PairingOK'
  <2>0. PairingOK  BY DEF PairingInv
  <2>1. told' \subseteq {"signature", "key message"}  OBVIOUS
  <2>2. conns \in Nat  BY <2>0 DEF PairingOK
  <2>3. conns' \in Nat /\ 0..conns \subseteq 0..conns'  BY <2>2
  <2> QED  BY <2>0, <2>1, <2>2, <2>3 DEF PairingOK, pairVars
<1>2. KeysInv'  BY DEF PairingInv, KeysInv, FreshKeys, OwnKeys, pairVars
<1> QED  BY <1>1, <1>2 DEF PairingInv

\* No request leaves another client's key behind an answer that says the opposite:
\* outside raop_stop, what a handler writes is not lost.
LEMMA PairingStep ==
  ASSUME PairingInv, SharedInv, ConnectionOK, ConnectionInv, Serve, UNCHANGED pc
  PROVE  PairingInv'
<1> USE DEF PairingInv
<1>1. CASE Accept  BY <1>1, PairingLeft DEF Accept
<1>2. CASE Close  BY <1>2, PairingLeft DEF Close, conn_destroy
<1>3. CASE Exit
  <2>1. CASE open  BY <1>3, <2>1, PairingLeft DEF Exit, conn_destroy
  <2>2. CASE ~open  BY <1>3, <2>2, PairingKept DEF Exit, connVars, pairVars
  <2> QED  BY <2>1, <2>2
<1>4. ASSUME NEW r \in Requests, conn_request(r) PROVE PairingInv'
  BY <1>4, PairingKept DEF conn_request, connVars, pairVars
<1>5. CASE Crash  BY <1>5, PairingKept DEF Crash, connVars, pairVars
<1>6. ASSUME Handle PROVE PairingInv'
  <2>0. open /\ open' = open /\ conns' = conns /\ conns \in Nat
        /\ (pc \notin Exposed => ~lost)
    BY <1>6, HandleKeepsFrame DEF HandleFrame, ConnectionInv, ConnectionOK, SharedInv
  <2> USE <2>0
  <2>1. CASE \/ SetupSession \/ SetupMirror \/ SetupAudio \/ UnknownStream
            \/ TeardownAudio \/ Info \/ PostToAudio \/ NothingToDo
    <3>1. UNCHANGED <<told, pairVars>>
      BY <2>1 DEF SetupSession, SetupMirror, SetupAudio, UnknownStream,
                  TeardownAudio, Info, PostToAudio, NothingToDo
    <3> QED  BY <3>1, PairingKept DEF pairVars
  <2>2. CASE TeardownMirror
    <3>1. pairing_session_init /\ keymsg' = 0 /\ fresh' = {} /\ told' = {}
          /\ gone' \subseteq {"pairing", "fairplay"}
      BY <2>2 DEF TeardownMirror, raop_reset_pairing_session, Renewed
    <3> QED  BY <3>1, PairingRenewed
  <2>3. CASE PairSetup
    <3>1. status' \in {status, "SETUP"} /\ UNCHANGED <<gone, secret, keymsg, fresh, told>>
      BY <2>3 DEF PairSetup, pairing_session_set_setup_status
    <3> QED  BY <3>1 DEF PairingOK, KeysInv, FreshKeys, OwnKeys
  <2>4. CASE PairVerify1
    <3>1. CASE InPlace /\ ~MayVerify /\ UNCHANGED <<pairVars, told>>
      BY <3>1, PairingKept DEF pairVars
    <3>2. CASE /\ InPlace /\ MayVerify
               /\ pairing_session_handshake
               /\ told' = IF Signed THEN told \union {"signature"}
                                    ELSE told \ {"signature"}
               /\ UNCHANGED <<live, gone, keymsg>>
      <4>1. CASE /\ status' = "HANDSHAKE"
                 /\ secret' = conns /\ fresh' = fresh \union {"secret"}
        <5>1. told' = told \union {"signature"}  BY <3>2, <4>1 DEF Signed
        <5>2. PairingOK'
          <6>1. conns \in 0..conns  OBVIOUS
          <6>2. fresh' \subseteq {"secret", "keymsg"}  BY <4>1 DEF PairingOK
          <6>3. told' \subseteq {"signature", "key message"}  BY <5>1 DEF PairingOK
          <6> QED  BY <3>2, <4>1, <6>1, <6>2, <6>3 DEF PairingOK
        <5>3. KeysInv'
          BY <3>2, <4>1, <5>1 DEF KeysInv, FreshKeys, OwnKeys
        <5> QED  BY <5>2, <5>3
      <4>2. CASE UNCHANGED <<status, secret, fresh>>
        BY <3>2, <4>2 DEF MayVerify, Signed, PairingOK, KeysInv, FreshKeys, OwnKeys
      <4> QED  BY <3>2, <4>1, <4>2 DEF pairing_session_handshake
    <3>3. CASE /\ Dangling /\ UNCHANGED pairVars
               /\ told' \in {told, told \union {"signature"}, told \ {"signature"}}
      <4>1. pc \in Exposed  BY <3>3 DEF Dangling
      <4> QED  BY <3>3, <4>1 DEF pairVars, PairingOK, KeysInv, FreshKeys, OwnKeys
    <3> QED  BY <2>4, <3>1, <3>2, <3>3 DEF PairVerify1
  <2>5. CASE PairVerify0
    <3>1. status' = status /\ UNCHANGED <<gone, secret, keymsg, fresh, told>>
      BY <2>5 DEF PairVerify0, MayVerify, pairing_session_finish
    <3> QED  BY <3>1, PairingKept
  <2>6. CASE FpSetup
    <3>1. UNCHANGED <<gone, status, secret>> /\ told' = told \ {"key message"}
      BY <2>6 DEF FpSetup
    <3>2. CASE keymsg' = 0 /\ fresh' = fresh \ {"keymsg"}
      <4>1. PairingOK'
        <5>1. 0 \in 0..conns /\ conns \in 0..conns  OBVIOUS
        <5>2. fresh' \subseteq {"secret", "keymsg"}  BY <3>2 DEF PairingOK
        <5>3. told' \subseteq {"signature", "key message"}  BY <3>1 DEF PairingOK
        <5> QED  BY <3>1, <3>2, <5>1, <5>2, <5>3 DEF PairingOK
      <4>2. KeysInv'  BY <3>1, <3>2 DEF KeysInv, FreshKeys, OwnKeys
      <4> QED  BY <4>1, <4>2
    <3>3. CASE UNCHANGED <<keymsg, fresh>>
      BY <3>1, <3>3 DEF PairingOK, KeysInv, FreshKeys, OwnKeys
    <3> QED  BY <2>6, <3>2, <3>3 DEF FpSetup
  <2>7. CASE FpHandshake
    <3>1. UNCHANGED <<gone, status, secret>> /\ told' = told \union {"key message"}
      BY <2>7 DEF FpHandshake
    <3>2. CASE keymsg' = conns /\ fresh' = fresh \union {"keymsg"}
      <4>1. PairingOK'
        <5>1. 0 \in 0..conns /\ conns \in 0..conns  OBVIOUS
        <5>2. fresh' \subseteq {"secret", "keymsg"}  BY <3>2 DEF PairingOK
        <5>3. told' \subseteq {"signature", "key message"}  BY <3>1 DEF PairingOK
        <5> QED  BY <3>1, <3>2, <5>1, <5>2, <5>3 DEF PairingOK
      <4>2. KeysInv'  BY <3>1, <3>2 DEF KeysInv, FreshKeys, OwnKeys
      <4> QED  BY <4>1, <4>2
    <3>3. CASE Dangling /\ UNCHANGED <<keymsg, fresh>>
      <4>1. pc \in Exposed  BY <3>3 DEF Dangling
      <4> QED  BY <3>1, <3>3, <4>1 DEF PairingOK, KeysInv, FreshKeys, OwnKeys
    <3> QED  BY <2>7, <3>2, <3>3 DEF FpHandshake
  <2> QED  BY <1>6, <2>1, <2>2, <2>3, <2>4, <2>5, <2>6, <2>7 DEF Handle
<1> QED  BY <1>1, <1>2, <1>3, <1>4, <1>5, <1>6 DEF Serve

-----------------------------------------------------------------------------
(* The thread and the objects it shares *)

ThreadInv == NetInv /\ SharedInv /\ PlacesInv /\ ServicesInv

\* A handler under way may be on freed objects only while raop_stop has yet to
\* join its thread, and answers before that thread can end.
LEMMA ThreadStep ==
  ASSUME ThreadInv, ConnectionInv, Serve, UNCHANGED serverVars
  PROVE  ThreadInv'
<1> USE DEF ThreadInv, serverVars
<1>1. PlacesInv' /\ ServicesInv'
  BY DEF PlacesInv, ServicesInv, Registered, Named
<1>2. CASE Accept
  <2>1. /\ Serving /\ open' = TRUE
        /\ UNCHANGED <<net, req, lost, live, hwaddr>>
    BY <1>2 DEF Accept, pairVars, Serving
  <2>2. NetInv' /\ SharedInv'  BY <2>1 DEF NetInv, SharedInv, Serving
  <2> QED  BY <1>1, <2>2
<1>3. CASE Close
  BY <1>1, <1>3 DEF Close, conn_destroy, pairVars, NetInv, SharedInv, Serving, Exposed
<1>4. CASE Exit
  <2>1. /\ Serving /\ req \in {"none", "disconnect"}
        /\ net' = "exited" /\ req' = "none" /\ open' = FALSE
        /\ UNCHANGED <<lost, live, hwaddr>>
    BY <1>4 DEF Exit, conn_destroy, connVars, pairVars, Serving, ConnectionInv
  <2>2. NetInv' /\ SharedInv'
    BY <2>1 DEF NetInv, SharedInv, Serving, Exposed
  <2> QED  BY <1>1, <2>2
<1>5. ASSUME NEW r \in Requests, conn_request(r) PROVE ThreadInv'
  <2>1. /\ Serving /\ r \notin {"none", "disconnect"}
        /\ req' = r /\ lost' = ~live
        /\ UNCHANGED <<net, hwaddr, open, live>>
    BY <1>5 DEF conn_request, connVars, pairVars, Serving, Requests
  <2>2. NetInv' /\ SharedInv'
    BY <2>1 DEF NetInv, SharedInv, Serving, Exposed
  <2> QED  BY <1>1, <2>2
<1>6. CASE Handle
  <2>1. HandleFrame  BY <1>6, HandleKeepsFrame
  <2>2. NetInv' /\ SharedInv'
    BY <2>1 DEF HandleFrame, NetInv, SharedInv, Serving, Exposed
  <2> QED  BY <1>1, <2>2
<1>7. CASE Crash
  <2>1. /\ req' = "crashed"
        /\ UNCHANGED <<net, lost, hwaddr, open, live>>
    BY <1>7 DEF Crash, connVars, pairVars
  <2>2. NetInv' /\ SharedInv'
    BY <2>1 DEF NetInv, SharedInv, Serving
  <2> QED  BY <1>1, <2>2
<1> QED  BY <1>2, <1>3, <1>4, <1>5, <1>6, <1>7 DEF Serve
-----------------------------------------------------------------------------
(* Starting and stopping *)

\* The interface's thread leaves the connection and its request alone.
ControlFrame ==
  /\ UNCHANGED <<req, told, connVars, sessionVars>>
  /\ misuse' = misuse \/ misuse' = FALSE
  /\ net' \in {"off", "on", "stopping", "exited"}

LEMMA ControlKeepsFrame ==
  ASSUME ConnectionOK, Control
  PROVE  ControlFrame
<1> USE DEF ControlFrame, raopVars, pairVars, ConnectionOK
<1>1. StartHttpd => ControlFrame  BY DEF StartHttpd
<1>2. DnssdInit \/ RegisterRaop \/ RegisterAirplay => ControlFrame
  BY DEF DnssdInit, RegisterRaop, RegisterAirplay
<1>3. ObjectsFreed => ControlFrame  BY DEF ObjectsFreed
<1>4. ObjectsRenewed => ControlFrame
  BY DEF ObjectsRenewed, raop_reset_pairing_session, Renewed
<1>5. HttpdStop \/ HttpdJoin => ControlFrame  BY DEF HttpdStop, HttpdJoin
<1>6. ServerStop \/ Unregister \/ DnssdDestroy => ControlFrame
  BY DEF ServerStop, Unregister, DnssdDestroy
<1>7. RaopDestroy => ControlFrame  BY DEF RaopDestroy
<1> QED  BY <1>1, <1>2, <1>3, <1>4, <1>5, <1>6, <1>7 DEF Control

\* The objects are renewed together, when there is no connection or its thread is
\* about to be stopped.
LEMMA PairingControlStep ==
  ASSUME PairingInv, NetInv, ConnectionOK, Control
  PROVE  PairingInv'
<1> USE DEF PairingInv
<1>0. UNCHANGED <<told, conns, open>>
  BY ControlKeepsFrame DEF ControlFrame, connVars
<1>1. CASE StartHttpd
  <2>1. told = {}  BY <1>1 DEF StartHttpd, Goto, NetInv, Serving, KeysInv
  <2>2. pairing_session_init /\ keymsg' = 0 /\ fresh' = {} /\ gone' = {}
    BY <1>1 DEF StartHttpd
  <2> QED  BY <1>0, <2>1, <2>2, PairingRenewed
<1>2. CASE ObjectsRenewed
  <2>1. pc' \in Exposed  BY <1>2 DEF ObjectsRenewed, Goto, Exposed
  <2>2. pairing_session_init /\ keymsg' = 0 /\ fresh' = {}
        /\ gone' \subseteq {"pairing", "fairplay"}
    BY <1>2 DEF ObjectsRenewed, raop_reset_pairing_session, Renewed
  <2> QED  BY <1>0, <2>1, <2>2, PairingRenewed
<1>3. CASE RaopDestroy
  <2>1. told = {}  BY <1>3 DEF RaopDestroy, Goto, NetInv, Serving, KeysInv
  <2>2. pairing_session_init /\ keymsg' = 0 /\ fresh' = {} /\ gone' = {}
    BY <1>3 DEF RaopDestroy
  <2> QED  BY <1>0, <2>1, <2>2, PairingRenewed
<1>4. CASE HttpdStop \/ HttpdJoin
  <2>1. UNCHANGED pairVars  BY <1>4 DEF HttpdStop, HttpdJoin
  <2>2. pc' \in Exposed \/ told = {}
    BY <1>4 DEF HttpdStop, HttpdJoin, Goto, NetInv, Serving, KeysInv, Exposed
  <2> QED  BY <1>0, <2>1, <2>2, PairingKept DEF pairVars
<1>5. CASE ObjectsFreed
  <2>1. UNCHANGED <<gone, status, secret, keymsg, fresh>> /\ pc' \in Exposed
    BY <1>5 DEF ObjectsFreed, Goto, Exposed
  <2> QED  BY <1>0, <2>1, PairingKept
<1>6. CASE \/ DnssdInit \/ RegisterRaop \/ RegisterAirplay
          \/ ServerStop \/ Unregister \/ DnssdDestroy
  <2>1. UNCHANGED pairVars /\ pc \notin Exposed
    BY <1>6 DEF DnssdInit, RegisterRaop, RegisterAirplay, ServerStop, Unregister,
                DnssdDestroy, Goto, Exposed, raopVars
  <2> QED  BY <1>0, <2>1, PairingKept DEF pairVars
<1> QED  BY <1>1, <1>2, <1>3, <1>4, <1>5, <1>6 DEF Control

\* Each step of the start and of the stop leads from what holds at its place to
\* what holds at the next: the objects and the thread, and the DNS services.
LEMMA ThreadControlStep ==
  ASSUME ThreadInv, ConnectionOK, ConnectionInv, ControlOK, Control
  PROVE  ThreadInv' /\ ControlOK'
<1> USE DEF ThreadInv, Goto, Stopping, Exposed, Serving, Registered, Named
<1>1. CASE StartHttpd
  <2>1. /\ pc = "idle" /\ server = "none" /\ pc' = "dnssd" /\ server' = "idle"
        /\ starts' = starts + 1 /\ hwaddr' = TRUE /\ live' = TRUE
        /\ net' \in {"on", "off"}
        /\ UNCHANGED <<req, lost, open, back, services, names, leaked>>
    BY <1>1 DEF StartHttpd, connVars
  <2>2. ~open /\ req = "none" /\ ~lost
    BY <2>1 DEF NetInv, ConnectionInv, SharedInv
  <2>3. NetInv' /\ SharedInv'  BY <2>1, <2>2 DEF NetInv, SharedInv
  <2>4. PlacesInv' /\ ServicesInv'
    BY <2>1 DEF PlacesInv, ServicesInv
  <2>5. ControlOK'
    <3>0. starts \in Nat /\ starts' = starts + 1  BY <2>1 DEF ControlOK
    <3>1. starts' \in Nat  BY <3>0
    <3>2. pc' = "dnssd" /\ server' = "idle" /\ back' = back /\ services' = services
          /\ names' = names
      BY <2>1
    <3> QED  BY <3>1, <3>2 DEF ControlOK
  <2> QED  BY <2>3, <2>4, <2>5
<1>2. CASE DnssdInit
  <2>1. /\ pc = "dnssd" /\ server' = server /\ services' = services /\ starts' = starts
        /\ \/ pc' = "register" /\ names' = "held" /\ back' = back
           \/ pc' = "raop_stop" /\ names' = names /\ back' = "idle"
        /\ UNCHANGED <<net, req, lost, live, hwaddr, open, leaked>>
    BY <1>2 DEF DnssdInit, raopVars, connVars, pairVars
  <2> QED
    BY <2>1 DEF NetInv, SharedInv, PlacesInv, ServicesInv, ControlOK
<1>3. CASE RegisterRaop
  <2>1. /\ pc = "register" /\ server' = server /\ names' = names /\ starts' = starts
        /\ \/ pc' = "airplay" /\ services' = services \union {"raop"} /\ back' = back
           \/ pc' = "raop_stop" /\ services' = services /\ back' = "dnssd_destroy"
        /\ UNCHANGED <<net, req, lost, live, hwaddr, open, leaked>>
    BY <1>3 DEF RegisterRaop, raopVars, connVars, pairVars
  <2> QED
    BY <2>1 DEF NetInv, SharedInv, PlacesInv, ServicesInv, ControlOK
<1>4. CASE RegisterAirplay
  <2>1. /\ pc = "airplay" /\ pc' = "idle" /\ server' = "running"
        /\ services' \in {services, services \union {"airplay"}}
        /\ UNCHANGED <<net, req, lost, live, hwaddr, open, leaked, names, back, starts>>
    BY <1>4 DEF RegisterAirplay, raopVars, connVars, pairVars
  <2> QED
    BY <2>1 DEF NetInv, SharedInv, PlacesInv, ServicesInv, ControlOK
<1>5. CASE ObjectsFreed
  BY <1>5 DEF ObjectsFreed, connVars, NetInv, SharedInv, PlacesInv, ServicesInv,
              ControlOK, ConnectionInv
<1>6. CASE ObjectsRenewed
  BY <1>6 DEF ObjectsRenewed, raop_reset_pairing_session, Renewed, connVars, NetInv, SharedInv,
              PlacesInv, ServicesInv, ControlOK
<1>7. CASE HttpdStop
  BY <1>7 DEF HttpdStop, connVars, pairVars, NetInv, SharedInv, PlacesInv,
              ServicesInv, ControlOK, ConnectionInv, ConnectionOK
<1>8. CASE HttpdJoin
  BY <1>8 DEF HttpdJoin, connVars, pairVars, NetInv, SharedInv, PlacesInv,
              ServicesInv, ControlOK, ConnectionInv
<1>9. CASE ServerStop
  <2>1. /\ pc = "idle" /\ server # "none" /\ pc' = "raop_stop" /\ server' = "idle"
        /\ back' = IF server = "running" THEN "unregister" ELSE "raop_destroy"
        /\ UNCHANGED <<net, req, lost, live, hwaddr, open, leaked, names, services, starts>>
    BY <1>9 DEF ServerStop, raopVars, connVars, pairVars
  <2> QED
    BY <2>1 DEF NetInv, SharedInv, PlacesInv, ServicesInv, ControlOK
<1>10. CASE Unregister
  <2>1. /\ pc = "unregister" /\ pc' = "dnssd_destroy" /\ services' = {}
        /\ names' = (IF services # {} THEN "freed" ELSE names)
        /\ back' = "raop_stop again"
        /\ UNCHANGED <<net, req, lost, live, hwaddr, open, leaked, server, starts>>
    BY <1>10 DEF Unregister, raopVars, connVars, pairVars
  <2> QED
    BY <2>1 DEF NetInv, SharedInv, PlacesInv, ServicesInv, ControlOK
<1>11. CASE DnssdDestroy
  <2>1. /\ pc = "dnssd_destroy" /\ names' = "none"
        /\ leaked' = (leaked \/ (names = "held" /\ back = "raop_stop again"))
        /\ pc' = IF back = "raop_stop again" THEN "raop_stop" ELSE "idle"
        /\ back' = IF back = "raop_stop again" THEN "raop_destroy" ELSE back
        /\ UNCHANGED <<net, req, lost, live, hwaddr, open, services, server, starts>>
    BY <1>11 DEF DnssdDestroy, raopVars, connVars, pairVars
  <2> QED
    BY <2>1 DEF NetInv, SharedInv, PlacesInv, ServicesInv, ControlOK
<1>12. CASE RaopDestroy
  BY <1>12 DEF RaopDestroy, connVars, NetInv, SharedInv, PlacesInv, ServicesInv,
               ControlOK
<1> QED
  BY <1>1, <1>2, <1>3, <1>4, <1>5, <1>6, <1>7, <1>8, <1>9, <1>10, <1>11, <1>12
     DEF Control
-----------------------------------------------------------------------------
(* Together *)

ServerStep == Control \/ (Serve /\ UNCHANGED serverVars)

LEMMA FlagsStep ==
  ASSUME FlagsOK, ServerStep
  PROVE  FlagsOK'
<1> USE DEF FlagsOK, raopVars, connVars, pairVars, serverVars, conn_destroy,
            InPlace, Dangling, Answer, Disconnect, raop_reset_pairing_session, Renewed
<1>1. CASE Control
  <2>1. StartHttpd => FlagsOK'  BY Zenon DEF StartHttpd
  <2>2. DnssdInit => FlagsOK'  BY Zenon DEF DnssdInit
  <2>3. RegisterRaop => FlagsOK'  BY Zenon DEF RegisterRaop
  <2>4. RegisterAirplay => FlagsOK'  BY Zenon DEF RegisterAirplay
  <2>5. ObjectsFreed => FlagsOK'  BY Zenon DEF ObjectsFreed
  <2>6. ObjectsRenewed => FlagsOK'  BY Zenon DEF ObjectsRenewed
  <2>7. HttpdStop => FlagsOK'  BY Zenon DEF HttpdStop
  <2>8. HttpdJoin => FlagsOK'  BY Zenon DEF HttpdJoin
  <2>9. ServerStop => FlagsOK'  BY Zenon DEF ServerStop
  <2>10. Unregister => FlagsOK'  BY Zenon DEF Unregister
  <2>11. DnssdDestroy => FlagsOK'  BY Zenon DEF DnssdDestroy
  <2>12. RaopDestroy => FlagsOK'  BY Zenon DEF RaopDestroy
  <2> QED
    BY <1>1, <2>1, <2>2, <2>3, <2>4, <2>5, <2>6, <2>7, <2>8, <2>9, <2>10, <2>11, <2>12
       DEF Control
<1>2. CASE Serve /\ UNCHANGED serverVars
  <2>0. leaked' = leaked  BY <1>2
  <2> USE <2>0
  <2>1. Accept => FlagsOK'  BY Zenon DEF Accept
  <2>2. Close => FlagsOK'  BY Zenon DEF Close
  <2>3. Exit => FlagsOK'
    <3>1. CASE open
      BY <3>1, Zenon DEF Exit
    <3>2. CASE ~open
      BY <3>2, Zenon DEF Exit
    <3> QED  BY <3>1, <3>2
  <2>4. ASSUME NEW r \in Requests, conn_request(r) PROVE FlagsOK'
    BY <2>4, Zenon DEF conn_request
  <2>5. PairSetup => FlagsOK'  BY Zenon DEF PairSetup
  <2>6. PairVerify1 => FlagsOK'  BY Zenon DEF PairVerify1
  <2>7. PairVerify0 => FlagsOK'  BY Zenon DEF PairVerify0
  <2>8. FpSetup => FlagsOK'  BY Zenon DEF FpSetup
  <2>9. FpHandshake => FlagsOK'  BY Zenon DEF FpHandshake
  <2>10. SetupSession => FlagsOK'  BY Zenon DEF SetupSession
  <2>11. SetupMirror => FlagsOK'
    <3>1. CASE mirror = 0  BY <3>1, Zenon DEF SetupMirror
    <3>2. CASE mirror # 0  BY <3>2, Zenon DEF SetupMirror
    <3> QED  BY <3>1, <3>2
  <2>12. SetupAudio => FlagsOK'
    <3>1. CASE rtp = 0  BY <3>1, Zenon DEF SetupAudio
    <3>2. CASE rtp # 0  BY <3>2, Zenon DEF SetupAudio
    <3> QED  BY <3>1, <3>2
  <2>13. UnknownStream => FlagsOK'  BY Zenon DEF UnknownStream
  <2>14. TeardownMirror => FlagsOK'  BY Zenon DEF TeardownMirror
  <2>15. TeardownAudio => FlagsOK'  BY Zenon DEF TeardownAudio
  <2>16. Info => FlagsOK'  BY Zenon DEF Info
  <2>17. PostToAudio => FlagsOK'  BY Zenon DEF PostToAudio
  <2>18. NothingToDo => FlagsOK'  BY Zenon DEF NothingToDo
  <2>19. Handle => FlagsOK'
    BY <2>5, <2>6, <2>7, <2>8, <2>9, <2>10, <2>11, <2>12, <2>13, <2>14, <2>15, <2>16,
       <2>17, <2>18 DEF Handle
  <2>20. Crash => FlagsOK'  BY Zenon DEF Crash
  <2> QED  BY <1>2, <2>1, <2>2, <2>3, <2>4, <2>19, <2>20 DEF Serve
<1> QED  BY <1>1, <1>2 DEF ServerStep

LEMMA IInvParts ==
  IInv <=> FlagsOK /\ SessionsOK /\ PairingInv /\ ThreadInv /\ ControlOK
  BY TypeParts, Zenon DEF IInv, SessionsOK, PairingInv, ThreadInv

LEMMA IInvInit == ServerInit => IInv
<1> SUFFICES ASSUME ServerInit PROVE IInv  OBVIOUS
<1> USE DEF ServerInit, Init
<1>1. FlagsOK /\ ControlOK  BY DEF FlagsOK, ControlOK
<1>4. PairingInv
  <2>1. 0 \in 0..conns /\ conns \in Nat  OBVIOUS
  <2>2. gone \subseteq {"pairing", "fairplay"} /\ fresh \subseteq {"secret", "keymsg"}
    OBVIOUS
  <2>3. told \subseteq {"signature", "key message"}  OBVIOUS
  <2>4. PairingOK  BY <2>1, <2>2, <2>3 DEF PairingOK
  <2>5. KeysInv  BY DEF KeysInv, FreshKeys, OwnKeys
  <2> QED  BY <2>4, <2>5 DEF PairingInv
<1>2. SessionsOK
  BY BoundsAssumption DEF SessionsOK, ConnectionOK, ConnectionInv, SessionsInv,
                          NoDanglingSession
<1>3. ThreadInv
  BY DEF ThreadInv, NetInv, SharedInv, PlacesInv, ServicesInv, Serving, Exposed,
         Stopping, Registered, Named
<1> QED  BY <1>1, <1>2, <1>3, <1>4, IInvParts

LEMMA IInvStep == IInv /\ [Next]_vars => IInv'
<1> SUFFICES ASSUME IInv, [Next]_vars PROVE IInv'  OBVIOUS
<1>0. FlagsOK /\ SessionsOK /\ PairingInv /\ ThreadInv /\ ControlOK
  BY IInvParts
<1>1. CASE Control
  <2>1. FlagsOK'  BY <1>0, <1>1, FlagsStep DEF ServerStep
  <2>2. ControlFrame  BY <1>0, <1>1, ControlKeepsFrame DEF SessionsOK
  <2>3. SessionsOK'
    <3>1. /\ net' \in {"off", "on", "stopping", "exited"}
          /\ UNCHANGED <<open, rtp, mirror, conns, req, sessionVars>>
      BY <2>2 DEF ControlFrame, connVars
    <3>2. /\ conns' \in Nat /\ req' \in Requests \union {"none", "disconnect", "crashed"}
          /\ (req' # "none" => open) /\ (req' = "SETUP" => made < MaxSessions)
      BY <1>0, <3>1 DEF SessionsOK, ConnectionOK, ConnectionInv
    <3> QED  BY <1>0, <3>1, <3>2, SessionsKept
  <2>4. PairingInv'  BY <1>0, <1>1, PairingControlStep DEF ThreadInv, SessionsOK
  <2>5. ThreadInv' /\ ControlOK'  BY <1>0, <1>1, ThreadControlStep DEF SessionsOK
  <2> QED  BY <2>1, <2>3, <2>4, <2>5, TypeParts, Zenon
           DEF IInv, SessionsOK, PairingInv, ThreadInv, TypeOK, FlagsOK, ConnectionOK,
               PairingOK, ControlOK
<1>2. CASE Serve /\ UNCHANGED serverVars
  <2>1. FlagsOK'  BY <1>0, <1>2, FlagsStep DEF ServerStep
  <2>2. SessionsOK'  BY <1>0, <1>2, BoundsAssumption, SessionsStep
  <2>3. PairingInv'  BY <1>0, <1>2, PairingStep DEF ThreadInv, SessionsOK, serverVars
  <2>4. ThreadInv'  BY <1>0, <1>2, ThreadStep DEF SessionsOK
  <2>5. ControlOK'  BY <1>0, <1>2 DEF serverVars, ControlOK
  <2> QED  BY <2>1, <2>2, <2>3, <2>4, <2>5, TypeParts, Zenon
           DEF IInv, SessionsOK, PairingInv, ThreadInv, TypeOK, FlagsOK, ConnectionOK,
               PairingOK, ControlOK
<1>3. CASE UNCHANGED vars
  <2> USE <1>3 DEF vars, raopVars, connVars, sessionVars, pairVars, serverVars
  <2>1. TypeOK'
    <3>1. FlagsOK'  BY <1>0, Zenon DEF FlagsOK
    <3>2. ConnectionOK' /\ PairingOK' /\ ControlOK'
      <4>1. ConnectionOK /\ PairingOK  BY <1>0 DEF SessionsOK, PairingInv
      <4>2. ConnectionOK'  BY <4>1 DEF ConnectionOK
      <4>3. PairingOK'  BY <4>1 DEF PairingOK
      <4>4. ControlOK'  BY <1>0, Zenon DEF ControlOK
      <4> QED  BY <4>2, <4>3, <4>4
    <3> QED  BY <3>1, <3>2, Zenon
             DEF TypeOK, FlagsOK, ConnectionOK, PairingOK, ControlOK
  <2>2. NetInv' /\ ConnectionInv' /\ SharedInv' /\ PlacesInv'
    BY DEF IInv, NetInv, ConnectionInv, SharedInv, PlacesInv, Serving
  <2>3. ServicesInv'  BY DEF IInv, ServicesInv, Registered, Named
  <2>4. SessionsInv' /\ NoDanglingSession'
    BY DEF IInv, SessionsInv, NoDanglingSession
  <2>5. KeysInv'  BY DEF IInv, KeysInv, FreshKeys, OwnKeys
  <2> QED  BY <2>1, <2>2, <2>3, <2>4, <2>5 DEF IInv
<1> QED  BY <1>1, <1>2, <1>3 DEF Next

LEMMA IInvHolds == Spec => []IInv
  BY IInvInit, IInvStep, PTL DEF Spec

-----------------------------------------------------------------------------
(* What it gives *)

\* Every variable of the server, its connection and its objects keeps its range
\* (raop_s, raop_conn_s, raop_server_s and dnssd_s).
THEOREM TypeCorrect == Spec => []TypeOK
  BY IInvHolds, PTL DEF IInv

\* conn->raop_rtp and conn->raop_rtp_mirror are NULL or point to a session that
\* was not freed, in any order of SETUP, TEARDOWN and hang-up (raop_handlers.h,
\* conn_destroy).
THEOREM SessionsCorrect == Spec => []NoDanglingSession
  BY IInvHolds, PTL DEF IInv

\* While raop_stop is not renewing the objects, the keys a SETUP takes are those of
\* the client that sends it, as far as that client was answered that they are, and
\* no key is older than the last TEARDOWN or start (raop_handler_setup,
\* raop_reset_pairing_session).
THEOREM KeysCorrect == Spec => KeysOfClient
<1> DEFINE Taken ==
      made' # made /\ pc \notin Exposed =>
         /\ "signature" \in told => secret = conns
         /\ "key message" \in told => keymsg = conns
         /\ secret # 0 => "secret" \in fresh
         /\ keymsg # 0 => "keymsg" \in fresh
<1>1. IInv => Taken  BY DEF IInv, KeysInv, FreshKeys, OwnKeys
<1>2. IInv => [Taken]_vars  BY <1>1
<1> QED  BY <1>2, IInvHolds, PTL DEF KeysOfClient

\* A destroyed server has left no thread, connection, service, name or running
\* session of its connection (raop_server_stop, raop_server_destroy).
THEOREM StoppedCorrect == Spec => []StoppedIsQuiet
<1>1. IInv => StoppedIsQuiet
  <2> SUFFICES ASSUME IInv, pc = "idle", server = "none"
               PROVE  /\ net = "off" /\ ~open /\ services = {} /\ names = "none"
                      /\ ~leaked
                      /\ \A s \in Sessions \ abandoned :
                            "running" \notin {audio[s], video[s]}
    BY DEF StoppedIsQuiet
  <2>1. net = "off" /\ ~open  BY DEF IInv, NetInv, Serving
  <2>2. services = {} /\ names = "none" /\ ~leaked
    BY DEF IInv, ServicesInv, Registered, Named, Stopping
  <2>3. rtp = 0 /\ mirror = 0  BY <2>1 DEF IInv, ConnectionInv
  <2>4. \A s \in Sessions \ abandoned : "running" \notin {audio[s], video[s]}
    BY <2>3, BoundsAssumption DEF IInv, SessionsInv, Sessions
  <2> QED  BY <2>1, <2>2, <2>4
<1> QED  BY <1>1, IInvHolds, PTL

\* A handler touches freed objects only between the place where raop_stop frees
\* them and the place where it has joined the handler's thread: /info without an
\* address, a mailbox of a freed session or a stale pointer are found nowhere
\* else (raop.c's raop_stop, raop_handlers.h).
THEOREM MisuseCorrect == Spec => MisuseOnlyWhileStopping
<1> DEFINE Misused == misuse' /\ ~misuse => pc \in Exposed
<1>1. IInv /\ [Next]_vars => [Misused]_vars
  <2> SUFFICES ASSUME IInv, Next, misuse', ~misuse PROVE pc \in Exposed
    OBVIOUS
  <2>0. ConnectionOK /\ ConnectionInv /\ NetInv /\ SharedInv /\ NoDanglingSession
    BY TypeParts DEF IInv
  <2>1. CASE Control
    <3>1. misuse' = misuse \/ misuse' = FALSE
      BY <2>0, <2>1, ControlKeepsFrame DEF ControlFrame
    <3> QED  BY <3>1
  <2>2. CASE Handle
    <3>1. Serving  BY <2>0, <2>2, HandleKeepsFrame DEF HandleFrame, NetInv, ConnectionInv
    <3>2. CASE lost  BY <2>0, <3>2 DEF SharedInv
    <3>3. CASE Info /\ ~hwaddr  BY <2>0, <3>1, <3>3 DEF SharedInv
    <3>4. ~(PostToAudio /\ rtp # 0 /\ audio[rtp] = "none")
      BY <2>0 DEF NoDanglingSession
    <3>5. PairSetup \/ PairVerify1 \/ PairVerify0 => lost
      BY DEF PairSetup, PairVerify1, PairVerify0, InPlace, Dangling
    <3>6. FpSetup \/ FpHandshake \/ SetupSession \/ TeardownMirror => lost
      BY DEF FpSetup, FpHandshake, SetupSession, TeardownMirror, InPlace, Dangling
    <3>7. ~(SetupMirror \/ SetupAudio \/ UnknownStream \/ TeardownAudio \/ NothingToDo)
      BY DEF SetupMirror, SetupAudio, UnknownStream, TeardownAudio, NothingToDo
    <3>8. Info => ~hwaddr  BY DEF Info
    <3>9. ~PostToAudio  BY <3>4 DEF PostToAudio
    <3> QED  BY <2>2, <3>2, <3>3, <3>5, <3>6, <3>7, <3>8, <3>9 DEF Handle
  <2>3. CASE Serve /\ ~Handle
    <3>1. misuse' = misuse  BY <2>3 DEF Serve, Accept, Close, Exit, conn_request, Crash
    <3> QED  BY <3>1
  <2> QED  BY <2>1, <2>2, <2>3 DEF Next
<1> QED  BY <1>1, IInvHolds, PTL DEF Spec, MisuseOnlyWhileStopping
-----------------------------------------------------------------------------
(* The httpd thread, as the server takes it to be *)

\* The open connection is the latest of those accepted.
NumberInv ==
  /\ conns \in 0..MaxConns
  /\ open => conns \in 1..MaxConns

LEMMA NumberStep == IInv /\ NumberInv /\ [Next]_vars => NumberInv'
<1> SUFFICES ASSUME IInv, NumberInv, [Next]_vars PROVE NumberInv'  OBVIOUS
<1> USE DEF NumberInv
<1>0. ConnectionOK  BY TypeParts DEF IInv
<1>1. CASE Accept  BY <1>1, BoundsAssumption DEF Accept
<1>2. CASE Close \/ Exit
  <2>1. conns' = conns /\ (open' => open)
    BY <1>2 DEF Close, Exit, conn_destroy, connVars
  <2> QED  BY <2>1
<1>3. CASE Handle  BY <1>3, HandleKeepsFrame DEF HandleFrame
<1>4. CASE \E r \in Requests : conn_request(r)
  BY <1>4 DEF conn_request, connVars
<1>5. CASE Control  BY <1>0, <1>5, ControlKeepsFrame DEF ControlFrame, connVars
<1>6. CASE UNCHANGED vars  BY <1>6 DEF vars, raopVars, connVars
<1>7. CASE Crash  BY <1>7 DEF Crash, connVars
<1> QED  BY <1>1, <1>2, <1>3, <1>4, <1>5, <1>6, <1>7 DEF Next, Serve

LEMMA ThreadInitMaps == ServerInit => NumberInv /\ Callbacks!ThreadInit
  BY BoundsAssumption DEF ServerInit, Init, NumberInv, Callbacks!ThreadInit

\* A new connection is the only one.
LEMMA AcceptMaps == NumberInv /\ Accept => Callbacks!HandlerMade(conns + 1)
<1> SUFFICES ASSUME NumberInv, Accept PROVE Callbacks!HandlerMade(conns + 1)
  OBVIOUS
<1>1. ~open /\ open' /\ conns' = conns + 1 /\ net' = net /\ net \in {"on", "stopping"}
  BY DEF Accept
<1>2. Callbacks!Cardinality({}) = Cardinality({})
  BY DEF Cardinality, Callbacks!Cardinality
<1>3. Cardinality({}) < 1  BY FS_EmptySet
<1> QED  BY <1>1, <1>2, <1>3 DEF Callbacks!HandlerMade, Callbacks!Runs

LEMMA ThreadServeMaps ==
  ASSUME IInv, NumberInv, Serve
  PROVE  [Callbacks!ThreadNext]_(Callbacks!threadVars)
<1> USE DEF Callbacks!threadVars
<1>1. CASE Accept
  <2>1. conns + 1 \in 1..MaxConns
    BY <1>1, BoundsAssumption DEF Accept, NumberInv
  <2> QED  BY <1>1, <2>1, AcceptMaps DEF Callbacks!ThreadNext
<1>2. CASE Close
  <2>1. open /\ ~open' /\ net \in {"on", "stopping"} /\ net' = net
    BY <1>2 DEF Close, conn_destroy
  <2>2. Callbacks!HandlerTaken(conns)
    BY <2>1 DEF Callbacks!HandlerTaken, Callbacks!Runs
  <2> QED  BY <2>1, <2>2 DEF NumberInv, Callbacks!ThreadNext
<1>3. CASE Exit
  <2>1. net \in {"on", "stopping"} /\ net' = "exited" /\ ~open'
    BY <1>3 DEF Exit, conn_destroy, connVars
  <2> QED  BY <2>1 DEF Callbacks!ThreadNext, Callbacks!Ended, Callbacks!Runs
<1>4. CASE Handle  BY <1>4, HandleKeepsFrame DEF HandleFrame
<1>5. CASE \E r \in Requests : conn_request(r)
  BY <1>5 DEF conn_request, connVars
<1>6. CASE Crash  BY <1>6 DEF Crash, connVars
<1> QED  BY <1>1, <1>2, <1>3, <1>4, <1>5, <1>6 DEF Serve

LEMMA ThreadControlMaps ==
  ASSUME IInv, Control
  PROVE  [Callbacks!ThreadNext]_(Callbacks!threadVars)
<1> USE DEF Callbacks!threadVars
<1>0. ConnectionOK  BY TypeParts DEF IInv
<1>1. UNCHANGED <<conns, open>>
  BY <1>0, ControlKeepsFrame DEF ControlFrame, connVars
<1>2. CASE StartHttpd
  <2>1. net = "off" /\ net' \in {"on", "off"}
    BY <1>2 DEF StartHttpd, Goto, IInv, NetInv
  <2> QED  BY <1>1, <2>1 DEF Callbacks!ThreadNext, Callbacks!Started
<1>3. CASE HttpdStop
  <2>1. net' = (IF net = "on" THEN "stopping" ELSE net)  BY <1>3 DEF HttpdStop
  <2> QED  BY <1>1, <2>1 DEF Callbacks!ThreadNext, Callbacks!Stopped
<1>4. CASE HttpdJoin
  BY <1>1, <1>4 DEF HttpdJoin, Callbacks!ThreadNext, Callbacks!Joined
<1>5. CASE ~StartHttpd /\ ~HttpdStop /\ ~HttpdJoin
  <2>1. net' = net
    BY <1>5 DEF Control, DnssdInit, RegisterRaop, RegisterAirplay, ObjectsFreed,
       ObjectsRenewed, ServerStop, Unregister, DnssdDestroy, RaopDestroy, raopVars
  <2> QED  BY <1>1, <2>1
<1> QED  BY <1>2, <1>3, <1>4, <1>5

\* The RTSP server and the server object use the httpd thread as httpd.h offers
\* it, with room for one connection (raop_init's httpd_init, raop_start and
\* raop_stop): every step they take it to make is one of the interface that
\* httpd.c keeps to (HttpdProofs).
THEOREM RaopImplementsThread ==
  Spec => ImplementsThread /\ []Callbacks!ThreadTypeOK
<1>1. ServerInit => NumberInv /\ Callbacks!ThreadInit  BY ThreadInitMaps
<1>2. IInv /\ NumberInv /\ [Next]_vars => NumberInv'  BY NumberStep
<1>3. IInv /\ NumberInv /\ [Next]_vars => [Callbacks!ThreadNext]_(Callbacks!threadVars)
  <2> SUFFICES ASSUME IInv, NumberInv, [Next]_vars
               PROVE  [Callbacks!ThreadNext]_(Callbacks!threadVars)
    OBVIOUS
  <2>1. CASE UNCHANGED vars
    BY <2>1 DEF vars, raopVars, connVars, Callbacks!threadVars
  <2> QED  BY <2>1, ThreadServeMaps, ThreadControlMaps DEF Next
<1>4. IInv /\ NumberInv => Callbacks!ThreadTypeOK
  BY TypeParts DEF IInv, ConnectionOK, NumberInv, Callbacks!ThreadTypeOK
<1> QED  BY <1>1, <1>2, <1>3, <1>4, IInvHolds, PTL
         DEF Spec, ImplementsThread, Callbacks!ThreadSpec
=============================================================================

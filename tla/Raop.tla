-------------------------------- MODULE Raop --------------------------------
(***************************************************************************)
(* The RTSP side of the server: the one connection the httpd thread serves *)
(* (raop.c), the handlers of its requests (raop_handlers.h), and the       *)
(* objects they share with the thread that starts and stops the server:    *)
(* the pairing session (pairing.c), the FairPlay keys                      *)
(* (fairplay_playfair.c) and the hardware address.                         *)
(*                                                                         *)
(* raop_server.c:125 gives httpd room for one client, so one connection is *)
(* open at a time (Httpd shows that the bound is kept).  The two sessions  *)
(* a SETUP creates are here the states of their objects only; RaopRtp and  *)
(* RaopRtpMirror hold their threads.                                       *)
(*                                                                         *)
(* A handler is two steps, the arrival of its request and its work, so     *)
(* that raop_stop, which runs in another thread and takes no lock, can     *)
(* free what the handler is about to use.                                  *)
(***************************************************************************)
EXTENDS Naturals

CONSTANTS
    MaxConns,      \* bound: connections accepted
    MaxSessions    \* bound: SETUP requests without streams

ASSUME BoundsAssumption == MaxConns \in Nat /\ MaxSessions \in Nat

VARIABLES
    net,        \* the httpd thread
    conns,      \* connections accepted so far
    open,       \* whether the latest of them is open
    req,        \* the request being handled
    lost,       \* objects were freed since that request arrived
    rtp,        \* conn->raop_rtp, a session number, 0 for NULL
    mirror,     \* conn->raop_rtp_mirror
    made,       \* sessions created so far
    audio,      \* the state of each raop_rtp_t, "none" before and after its life
    video,      \* the state of each raop_rtp_mirror_t
    abandoned,  \* sessions a later SETUP has overwritten
    live,       \* pairing, pairing_session and fairplay are not freed objects
    gone,       \* those of them that are NULL, for want of memory or of a seed:
                \* "pairing" for the first two
    hwaddr,     \* hw_addr points to an address
    status,     \* pairing_session->status
    secret,     \* whose handshake pairing_session->ecdh_secret comes from, the
                \* number of a connection, 0 for none (zeros)
    keymsg,     \* whose message fairplay->keymsg is, 0 while keymsglen is not 164
    fresh,      \* which of the two were made since the last renewal
    told,       \* what the open connection was last answered: a "signature" to
                \* its pair-verify, the answer to its "key message"
    misuse      \* a handler of the present httpd thread has used a freed object

connVars    == <<conns, open, rtp, mirror>>
sessionVars == <<made, audio, video, abandoned>>
pairVars    == <<live, gone, status, secret, keymsg, fresh>>
raopVars    == <<net, req, lost, hwaddr, told, misuse,
                 connVars, sessionVars, pairVars>>

Sessions == 1..MaxSessions

Requests ==
    {"info", "pair-setup", "pair-verify 1", "pair-verify 0",
     "fp-setup 16", "fp-setup 164", "SETUP",
     "SETUP 110", "SETUP 96", "TEARDOWN 110", "TEARDOWN 96",
     "unknown stream", "post", "malformed", "other"}

\* The objects a handler follows the pointers to.
Needs(r) ==
    CASE r \in {"pair-setup", "pair-verify 1", "pair-verify 0"} -> {"pairing"}
      [] r \in {"fp-setup 16", "fp-setup 164"} -> {"fairplay"}
      [] r = "SETUP" -> {"pairing", "fairplay"}
      [] OTHER -> {}

(***************************************************************************)
(* raop_init: fresh objects, no connection.                                *)
(***************************************************************************)
Init ==
    /\ net = "off" /\ conns = 0 /\ open = FALSE
    /\ req = "none" /\ lost = FALSE
    /\ rtp = 0 /\ mirror = 0 /\ made = 0
    /\ audio = [s \in Sessions |-> "none"]
    /\ video = [s \in Sessions |-> "none"]
    /\ abandoned = {}
    /\ live = TRUE /\ gone = {} /\ hwaddr = FALSE
    /\ status = "INITIAL" /\ secret = 0 /\ keymsg = 0
    /\ fresh = {} /\ told = {}
    /\ misuse = FALSE

-----------------------------------------------------------------------------
(* Connections *)

(* conn_init, called by httpd for an accepted socket. *)
Accept ==
    /\ net \in {"on", "stopping"} /\ ~open /\ req = "none"
    /\ conns < MaxConns
    /\ conns' = conns + 1 /\ open' = TRUE /\ told' = {}
    /\ UNCHANGED <<net, req, lost, rtp, mirror, hwaddr, misuse,
                   sessionVars, pairVars>>

(* raop_rtp_destroy and raop_rtp_mirror_destroy: stop, then free. *)
Freed(objects, s) == IF s = 0 THEN objects ELSE [objects EXCEPT ![s] = "none"]

(* conn_destroy: the sessions the connection still has are destroyed, the  *)
(* pairing session and the FairPlay keys stay as they are, and the next    *)
(* client finds another's.                                                 *)
(* A broken form: the mirror session is not destroyed. *)
DestroyForgetsMirror ==
    /\ audio' = Freed(audio, rtp)
    /\ rtp' = 0 /\ mirror' = 0 /\ open' = FALSE /\ told' = {}
    /\ UNCHANGED <<conns, made, abandoned, video, pairVars>>
conn_destroy ==
    /\ audio' = Freed(audio, rtp)
    /\ video' = Freed(video, mirror)
    /\ rtp' = 0 /\ mirror' = 0 /\ open' = FALSE /\ told' = {}
    /\ UNCHANGED <<conns, made, abandoned, pairVars>>

(* The client is gone, or the last answer asked for the disconnection. *)
Close ==
    /\ open /\ req \in {"none", "disconnect"} /\ net \in {"on", "stopping"}
    /\ conn_destroy
    /\ req' = "none"
    /\ UNCHANGED <<net, lost, hwaddr, misuse>>

(* The httpd thread ends, on running = 0 or on a failed select: it         *)
(* removes its connection.                                                 *)
Exit ==
    /\ net \in {"on", "stopping"} /\ req \in {"none", "disconnect"}
    /\ net' = "exited"
    /\ IF open THEN conn_destroy
               ELSE UNCHANGED <<connVars, sessionVars, pairVars, told>>
    /\ req' = "none"
    /\ UNCHANGED <<lost, hwaddr, misuse>>

(* conn_request picks the handler; it fetches the shared objects now. *)
conn_request(r) ==
    /\ net \in {"on", "stopping"} /\ open /\ req = "none"
    /\ req' = r
    /\ lost' = ~live
    /\ r = "SETUP" => made < MaxSessions
    /\ UNCHANGED <<net, hwaddr, told, misuse, connVars, sessionVars, pairVars>>

(* The handler is done; some of them ask for the disconnection. *)
Answer(r)     == req = r /\ req' = "none" /\ lost' = FALSE
Disconnect(r) == req = r /\ req' = "disconnect" /\ lost' = FALSE

(* The handler works on the shared objects that are in place, or, when     *)
(* some were freed since its request arrived, on freed ones: what it       *)
(* writes is lost.                                                         *)
InPlace  == live /\ Needs(req) \intersect gone = {} /\ UNCHANGED misuse
Dangling == lost /\ Needs(req) \intersect gone = {} /\ misuse' = TRUE

(* Or it follows NULL, or fails an assertion, and the process ends: at an  *)
(* object that could not be made again, or at what a request lacks that    *)
(* the handler takes for granted: the plist of a SETUP, its eiv or port,   *)
(* the type of a stream, the Content-Type of a GET or SET_PARAMETER.       *)
Crash ==
    /\ req = "malformed" \/ Needs(req) \intersect gone # {}
    /\ req' = "crashed"
    /\ UNCHANGED <<net, lost, hwaddr, told, misuse, connVars, sessionVars, pairVars>>

-----------------------------------------------------------------------------
(* Pairing and FairPlay *)

pairing_session_set_setup_status == status' = "SETUP"

(* raop_handler_pairsetup with 32 bytes. *)
PairSetup ==
    /\ Answer("pair-setup")
    /\ \/ InPlace  /\ pairing_session_set_setup_status
       \/ Dangling /\ UNCHANGED status
    /\ UNCHANGED <<net, hwaddr, told, connVars, sessionVars,
                   live, gone, secret, keymsg, fresh>>

(* pairing_session_check_handshake_status refuses every state but one. *)
MayVerify == status = "SETUP"

(* pairing_session_handshake makes a secret with the client's key, unless  *)
(* no seed can be read.                                                    *)
(* A broken form: the status is set before the seed is read. *)
HandshakeSetsStatusFirst ==
    /\ status # "FINISHED"
    /\ status' = "HANDSHAKE"
    /\ \/ secret' = conns /\ fresh' = fresh \union {"secret"}
       \/ UNCHANGED <<secret, fresh>>
pairing_session_handshake ==
    /\ status # "FINISHED"
    /\ \/ /\ status' = "HANDSHAKE"
          /\ secret' = conns /\ fresh' = fresh \union {"secret"}
       \/ UNCHANGED <<status, secret, fresh>>

(* pairing_session_get_signature fails in every other state, and the       *)
(* answer, which is sent all the same, is what was on the stack.           *)
Signed == status' = "HANDSHAKE"

(* raop_handler_pairverify, first message. *)
PairVerify1 ==
    /\ Answer("pair-verify 1")
    /\ \/ InPlace /\ ~MayVerify /\ UNCHANGED <<pairVars, told>>
       \/ /\ InPlace /\ MayVerify
          /\ pairing_session_handshake
          /\ told' = IF Signed THEN told \union {"signature"} ELSE told \ {"signature"}
          /\ UNCHANGED <<live, gone, keymsg>>
       \/ /\ Dangling /\ UNCHANGED pairVars
          /\ told' \in {told, told \union {"signature"}, told \ {"signature"}}
    /\ UNCHANGED <<net, hwaddr, connVars, sessionVars>>

(* Second message: pairing_session_finish wants the handshake done, which  *)
(* the check above has just excluded; a wrong signature disconnects too.   *)
pairing_session_finish(verified) ==
    IF status = "HANDSHAKE" /\ verified THEN "FINISHED" ELSE status

PairVerify0 ==
    /\ \/ /\ InPlace /\ ~MayVerify
          /\ Answer("pair-verify 0") /\ UNCHANGED status
       \/ /\ InPlace /\ MayVerify
          /\ \E verified \in BOOLEAN : status' = pairing_session_finish(verified)
          /\ IF status' = "FINISHED" THEN Answer("pair-verify 0")
                                     ELSE Disconnect("pair-verify 0")
       \/ /\ Dangling /\ UNCHANGED status
          /\ Answer("pair-verify 0") \/ Disconnect("pair-verify 0")
    /\ UNCHANGED <<net, hwaddr, told, connVars, sessionVars,
                   live, gone, secret, keymsg, fresh>>

(* raop_handler_fpsetup with 16 bytes: the key message is forgotten.       *)
(* Another protocol version than 3 changes nothing ("other").              *)
FpSetup ==
    /\ Answer("fp-setup 16")
    /\ \/ InPlace  /\ keymsg' = 0 /\ fresh' = fresh \ {"keymsg"}
       \/ Dangling /\ UNCHANGED <<keymsg, fresh>>
    /\ told' = told \ {"key message"}
    /\ UNCHANGED <<net, hwaddr, connVars, sessionVars,
                   live, gone, status, secret>>

(* With 164 bytes: the key message is stored. *)
FpHandshake ==
    /\ Answer("fp-setup 164")
    /\ \/ /\ InPlace
          /\ keymsg' = conns /\ fresh' = fresh \union {"keymsg"}
       \/ Dangling /\ UNCHANGED <<keymsg, fresh>>
    /\ told' = told \union {"key message"}
    /\ UNCHANGED <<net, hwaddr, connVars, sessionVars,
                   live, gone, status, secret>>

-----------------------------------------------------------------------------
(* Sessions *)

(* raop_handler_setup without streams: a mirror session and an audio       *)
(* session with the keys of the moment, whatever the connection had is     *)
(* overwritten.  Each of the two may fail to be allocated.                 *)
SetupSession ==
    /\ Answer("SETUP")
    /\ InPlace \/ Dangling
    /\ made' = made + 1
    /\ \E m, a \in {0, made'} :
        /\ mirror' = m /\ rtp' = a
        /\ video' = IF m = 0 THEN video ELSE [video EXCEPT ![m] = "idle"]
        /\ audio' = IF a = 0 THEN audio ELSE [audio EXCEPT ![a] = "idle"]
    /\ abandoned' = abandoned \union ({mirror, rtp} \ {0})
    /\ UNCHANGED <<net, hwaddr, told, conns, open, pairVars>>

(* raop_rtp_start_mirror and raop_rtp_start_audio: nothing happens when    *)
(* the session runs already, or when its sockets cannot be had.            *)
Started(objects, s) ==
    {objects} \union
        (IF objects[s] = "idle" THEN {[objects EXCEPT ![s] = "running"]} ELSE {})

(* SETUP with streams.  The loop reads item 0 of the list each time, so    *)
(* the request is about the first stream only.                             *)
SetupMirror ==
    /\ IF mirror = 0 THEN Disconnect("SETUP 110") /\ UNCHANGED video
                     ELSE Answer("SETUP 110") /\ video' \in Started(video, mirror)
    /\ UNCHANGED <<net, hwaddr, told, misuse, connVars, made, audio, abandoned,
                   pairVars>>

SetupAudio ==
    /\ IF rtp = 0 THEN Disconnect("SETUP 96") /\ UNCHANGED audio
                  ELSE Answer("SETUP 96") /\ audio' \in Started(audio, rtp)
    /\ UNCHANGED <<net, hwaddr, told, misuse, connVars, made, video, abandoned,
                   pairVars>>

(* A stream of unknown type, in SETUP or in TEARDOWN. *)
UnknownStream ==
    /\ Disconnect("unknown stream")
    /\ UNCHANGED <<net, hwaddr, told, misuse, connVars, sessionVars, pairVars>>

(* A session before any handshake, all zeros but the long-term keys. *)
pairing_session_init == status' = "INITIAL" /\ secret' = 0

(* All three objects are made again, but for those there is no memory or   *)
(* no seed for.                                                            *)
Renewed ==
    /\ pairing_session_init /\ live' = TRUE /\ fresh' = {}
    /\ gone' \in SUBSET {"pairing", "fairplay"}

(* Broken forms: the objects are not made again; fairplay is left alone. *)
ResetDoesNotRenew ==
    /\ pairing_session_init /\ live' = FALSE /\ keymsg' = 0 /\ fresh' = {}
    /\ UNCHANGED gone
ResetKeepsFairplay == Renewed /\ UNCHANGED keymsg

(* raop_reset_pairing_session. *)
raop_reset_pairing_session == Renewed /\ keymsg' = 0

(* raop_handler_teardown for the mirror stream: both sessions go, and the  *)
(* pairing is reset between them.                                          *)
(* A broken form: conn->raop_rtp keeps its value. *)
TeardownKeepsRtp ==
    /\ Answer("TEARDOWN 110")
    /\ video' = Freed(video, mirror) /\ mirror' = 0
    /\ audio' = Freed(audio, rtp) /\ UNCHANGED rtp
    /\ \/ InPlace  /\ raop_reset_pairing_session
       \/ Dangling /\ raop_reset_pairing_session
    /\ told' = {}
    /\ UNCHANGED <<net, hwaddr, conns, open, made, abandoned>>
TeardownMirror ==
    /\ Answer("TEARDOWN 110")
    /\ video' = Freed(video, mirror) /\ mirror' = 0
    /\ audio' = Freed(audio, rtp)    /\ rtp' = 0
    /\ \/ InPlace  /\ raop_reset_pairing_session
       \/ Dangling /\ raop_reset_pairing_session
    /\ told' = {}
    /\ UNCHANGED <<net, hwaddr, conns, open, made, abandoned>>

(* For the audio stream: raop_rtp_stop, the session stays. *)
TeardownAudio ==
    /\ Answer("TEARDOWN 96")
    /\ audio' = IF rtp # 0 /\ audio[rtp] = "running"
                THEN [audio EXCEPT ![rtp] = "idle"] ELSE audio
    /\ UNCHANGED <<net, hwaddr, told, misuse, connVars, made, video, abandoned,
                   pairVars>>

(* /info answers with the hardware address. *)
Info ==
    /\ Answer("info")
    /\ misuse' = (misuse \/ ~hwaddr)
    /\ UNCHANGED <<net, hwaddr, told, connVars, sessionVars, pairVars>>

(* SET_PARAMETER, FLUSH and SETUP's remote control id hand something to    *)
(* the audio session, when there is one, under its mutex.                  *)
PostToAudio ==
    /\ Answer("post")
    /\ misuse' = (misuse \/ (rtp # 0 /\ audio[rtp] = "none"))
    /\ UNCHANGED <<net, hwaddr, told, connVars, sessionVars, pairVars>>

(* OPTIONS, RECORD, feedback, GET_PARAMETER, an unknown method, a request  *)
(* without CSeq, one whose body has another length than the handler's.     *)
NothingToDo ==
    /\ Answer("other")
    /\ UNCHANGED <<net, hwaddr, told, misuse, connVars, sessionVars, pairVars>>

Handle ==
    \/ PairSetup \/ PairVerify1 \/ PairVerify0 \/ FpSetup \/ FpHandshake
    \/ SetupSession \/ SetupMirror \/ SetupAudio \/ UnknownStream
    \/ TeardownMirror \/ TeardownAudio \/ Info \/ PostToAudio \/ NothingToDo

(* The httpd thread. *)
Serve ==
    \/ Accept \/ Close \/ Exit
    \/ \E r \in Requests : conn_request(r)
    \/ Handle \/ Crash
=============================================================================

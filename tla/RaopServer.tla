----------------------------- MODULE RaopServer -----------------------------
(***************************************************************************)
(* The server object (raop_server.c, through jni_raop_server.cpp) and the  *)
(* Bonjour services it registers (dnssd.c), composed with the connection   *)
(* of Raop.  The user interface's thread starts and stops the server, the  *)
(* httpd thread serves; the two share raop_t without a lock.               *)
(*                                                                         *)
(* pc is the place of the interface's thread.  raop_stop is called from    *)
(* four places; back says where it returns to.                             *)
(***************************************************************************)
EXTENDS Raop, FiniteSets

CONSTANT MaxStarts    \* bound: times the user starts the server

ASSUME StartsAssumption == MaxStarts \in Nat

VARIABLES
    pc,        \* the place of the thread that starts and stops the server
    back,      \* where raop_stop returns to
    server,    \* the raop_server_t: "none", "idle" or "running"
    starts,    \* starts so far
    services,  \* the DNS services registered
    names,     \* dnssd->name and hw_addr: "none", "held" or "freed"
    leaked     \* a stop has freed a dnssd object with its name still held

serverVars == <<pc, back, server, starts, services, names, leaked>>
vars == <<raopVars, serverVars>>

ServerInit ==
    /\ Init
    /\ pc = "idle" /\ back = "none" /\ server = "none" /\ starts = 0
    /\ services = {} /\ names = "none" /\ leaked = FALSE

Goto(from, to) == pc = from /\ pc' = to

-----------------------------------------------------------------------------
(* raop_server_start *)

(* raop_server_init, raop_set_hw_addr and raop_start.  A start that fails  *)
(* is not noticed: the server goes on without an httpd thread.             *)
StartHttpd ==
    /\ Goto("idle", "dnssd") /\ server = "none" /\ starts < MaxStarts
    /\ server' = "idle" /\ starts' = starts + 1
    /\ hwaddr' = TRUE
    /\ pairing_session_init /\ live' = TRUE
    /\ gone' = {} /\ keymsg' = 0 /\ fresh' = {}
    /\ net' \in {"on", "off"}
    /\ UNCHANGED <<req, lost, told, misuse, connVars, sessionVars,
                   back, services, names, leaked>>

(* dnssd_init, which may be out of memory. *)
DnssdInit ==
    /\ \/ Goto("dnssd", "register") /\ names' = "held" /\ UNCHANGED back
       \/ Goto("dnssd", "raop_stop") /\ back' = "idle" /\ UNCHANGED names
    /\ UNCHANGED <<raopVars, server, starts, services, leaked>>

(* dnssd_register_raop; a failure stops what was started. *)
RegisterRaop ==
    /\ \/ /\ Goto("register", "airplay")
          /\ services' = services \union {"raop"} /\ UNCHANGED back
       \/ /\ Goto("register", "raop_stop")
          /\ back' = "dnssd_destroy" /\ UNCHANGED services
    /\ UNCHANGED <<raopVars, server, starts, names, leaked>>

(* dnssd_register_airplay, whose result is not looked at. *)
RegisterAirplay ==
    /\ Goto("airplay", "idle")
    /\ services' \in {services, services \union {"airplay"}}
    /\ server' = "running"
    /\ UNCHANGED <<raopVars, back, starts, names, leaked>>

-----------------------------------------------------------------------------
(* raop_stop: the shared objects first, then the thread that uses them *)

ObjectsFreed ==
    /\ Goto("raop_stop", "renew")
    /\ hwaddr' = FALSE /\ live' = FALSE
    /\ lost' = (lost \/ req \notin {"none", "disconnect"})
    /\ UNCHANGED <<net, req, told, misuse, connVars, sessionVars,
                   gone, status, secret, keymsg, fresh,
                   back, server, starts, services, names, leaked>>

ObjectsRenewed ==
    /\ Goto("renew", "httpd_stop")
    /\ raop_reset_pairing_session
    /\ UNCHANGED <<net, req, lost, hwaddr, told, misuse, connVars, sessionVars,
                   back, server, starts, services, names, leaked>>

(* httpd_stop, and the join of its thread. *)
HttpdStop ==
    /\ pc = "httpd_stop"
    /\ pc' = IF net = "off" THEN back ELSE "join"
    /\ net' = IF net = "on" THEN "stopping" ELSE net
    /\ UNCHANGED <<req, lost, hwaddr, told, misuse, connVars, sessionVars,
                   pairVars, back, server, starts, services, names, leaked>>

(* A broken form: the thread is not waited for. *)
HttpdJoinDoesNotWait ==
    /\ Goto("join", back)
    /\ net' = "off" /\ misuse' = FALSE
    /\ UNCHANGED <<req, lost, hwaddr, told, connVars, sessionVars,
                   pairVars, back, server, starts, services, names, leaked>>
HttpdJoin ==
    /\ Goto("join", back) /\ net = "exited"
    /\ net' = "off" /\ misuse' = FALSE
    /\ UNCHANGED <<req, lost, hwaddr, told, connVars, sessionVars,
                   pairVars, back, server, starts, services, names, leaked>>

-----------------------------------------------------------------------------
(* raop_server_stop and raop_server_destroy, called by the JNI's stop *)

ServerStop ==
    /\ pc = "idle" /\ server # "none"
    /\ pc' = "raop_stop"
    /\ back' = IF server = "running" THEN "unregister" ELSE "raop_destroy"
    /\ server' = "idle"
    /\ UNCHANGED <<raopVars, starts, services, names, leaked>>

(* dnssd_unregister_raop and dnssd_unregister_airplay: the one that finds  *)
(* the other service gone frees the name.                                  *)
(* A broken form: the name is freed only when both were registered. *)
UnregisterForgetsName ==
    /\ Goto("unregister", "dnssd_destroy")
    /\ services' = {}
    /\ names' = IF Cardinality(services) = 2 THEN "freed" ELSE names
    /\ back' = "raop_stop again"
    /\ UNCHANGED <<raopVars, server, starts, leaked>>
Unregister ==
    /\ Goto("unregister", "dnssd_destroy")
    /\ services' = {}
    /\ names' = IF services # {} THEN "freed" ELSE names
    /\ back' = "raop_stop again"
    /\ UNCHANGED <<raopVars, server, starts, leaked>>

(* dnssd_destroy frees the object only: a name still held is lost, which   *)
(* it is after a failed registration.                                      *)
(* After a failed registration the start returns, after a stop the raop_t  *)
(* is destroyed.                                                           *)
DnssdDestroy ==
    /\ pc = "dnssd_destroy"
    /\ leaked' = (leaked \/ (names = "held" /\ back = "raop_stop again"))
    /\ names' = "none"
    /\ pc' = IF back = "raop_stop again" THEN "raop_stop" ELSE "idle"
    /\ back' = IF back = "raop_stop again" THEN "raop_destroy" ELSE back
    /\ UNCHANGED <<raopVars, server, starts, services>>

(* The rest of raop_destroy: of what the objects held nothing is left. *)
RaopDestroy ==
    /\ Goto("raop_destroy", "idle")
    /\ server' = "none" /\ live' = FALSE
    /\ pairing_session_init /\ gone' = {} /\ keymsg' = 0 /\ fresh' = {}
    /\ UNCHANGED <<net, req, lost, hwaddr, told, misuse, connVars, sessionVars,
                   back, starts, services, names, leaked>>

Control ==
    \/ StartHttpd \/ DnssdInit \/ RegisterRaop \/ RegisterAirplay
    \/ ObjectsFreed \/ ObjectsRenewed \/ HttpdStop \/ HttpdJoin
    \/ ServerStop \/ Unregister \/ DnssdDestroy \/ RaopDestroy

(* A handler that crashes ends the whole process. *)
Next ==
    \/ req # "crashed" /\ Control
    \/ Serve /\ UNCHANGED serverVars

Spec == ServerInit /\ [][Next]_vars

-----------------------------------------------------------------------------
(* The httpd thread as the connections and the server object take it to be:   *)
(* they know the callbacks of httpd.h and nothing of its table.               *)

Callbacks == INSTANCE ServerThread WITH
    Handlers <- 1..MaxConns, Limit <- 1,
    phase <- net, handlers <- IF open THEN {conns} ELSE {}

ImplementsThread == Callbacks!ThreadSpec

-----------------------------------------------------------------------------
(* Correctness *)

(* Types: every variable ranges over what the code can store in it. *)
TypeOK ==
    /\ net \in {"off", "on", "stopping", "exited"}
    /\ conns \in Nat /\ open \in BOOLEAN
    /\ req \in Requests \union {"none", "disconnect", "crashed"} /\ lost \in BOOLEAN
    /\ rtp \in 0..made /\ mirror \in 0..made /\ made \in 0..MaxSessions
    /\ audio \in [Sessions -> {"none", "idle", "running"}]
    /\ video \in [Sessions -> {"none", "idle", "running"}]
    /\ abandoned \subseteq Sessions
    /\ live \in BOOLEAN /\ hwaddr \in BOOLEAN /\ misuse \in BOOLEAN
    /\ status \in {"INITIAL", "SETUP", "HANDSHAKE", "FINISHED"}
    /\ gone \subseteq {"pairing", "fairplay"}
    /\ secret \in 0..conns /\ keymsg \in 0..conns
    /\ fresh \subseteq {"secret", "keymsg"} /\ told \subseteq {"signature", "key message"}
    /\ pc \in {"idle", "dnssd", "register", "airplay", "raop_stop", "renew",
               "httpd_stop", "join", "unregister", "dnssd_destroy",
               "raop_destroy"}
    /\ back \in {"none", "idle", "dnssd_destroy", "unregister", "raop_destroy",
                 "raop_stop again"}
    /\ server \in {"none", "idle", "running"} /\ starts \in Nat
    /\ services \subseteq {"raop", "airplay"}
    /\ names \in {"none", "held", "freed"} /\ leaked \in BOOLEAN

(* The connection never points to a session that was freed: TEARDOWN of    *)
(* either stream, in any order with SETUP, leaves pointers that a later    *)
(* request, or conn_destroy, may follow.                                   *)
NoDanglingSession ==
    /\ rtp # 0 => audio[rtp] \in {"idle", "running"}
    /\ mirror # 0 => video[mirror] \in {"idle", "running"}

\* The places of raop_stop where the objects the handlers share are freed and made
\* again under them.
Exposed == {"renew", "httpd_stop", "join"}

(* The keys a SETUP takes are those of the client that sends it, whatever  *)
(* the clients before have left behind, which conn_destroy leaves alone:   *)
(* the secret, when the client's pair-verify was answered with a           *)
(* signature, and the key message, when its own was answered.  And those   *)
(* of a client that was not are no older than the last renewal.  Once      *)
(* raop_stop has begun to renew the objects, nothing of this is certain.   *)
KeysOfClient ==
    [][made' # made /\ pc \notin Exposed =>
         /\ "signature" \in told => secret = conns
         /\ "key message" \in told => keymsg = conns
         /\ secret # 0 => "secret" \in fresh
         /\ keymsg # 0 => "keymsg" \in fresh]_vars

(* A handler works on freed objects only while raop_stop, which frees them *)
(* before it stops the handlers, is running; never after a TEARDOWN or     *)
(* between two starts.                                                     *)
MisuseOnlyWhileStopping ==
    [][misuse' /\ ~misuse =>
         pc \in Exposed]_vars

(* Once the server object is gone, nothing of it is left: no httpd thread, *)
(* no connection, no service, no name that was registered, and no thread   *)
(* of a session except those of sessions a second SETUP had overwritten.   *)
StoppedIsQuiet ==
    pc = "idle" /\ server = "none" =>
        /\ net = "off" /\ ~open /\ services = {} /\ names = "none"
        /\ ~leaked
        /\ \A s \in Sessions \ abandoned :
              "running" \notin {audio[s], video[s]}
=============================================================================

---------------------------- MODULE ServerThread ----------------------------
(***************************************************************************)
(* What a server's thread promises the objects it serves: a handler exists  *)
(* per connection, at most Limit at a time; handlers come and go only while *)
(* the thread runs, also while it is being stopped; it ends without a       *)
(* handler, and a server is off, and may be started again, only once its    *)
(* thread has ended and was joined.  src/lib/httpd.c is shown to implement  *)
(* this in Httpd; the RTSP server of Raop and RaopServer, which only knows  *)
(* httpd.h, is shown to be an instance of it with one connection.           *)
(***************************************************************************)
EXTENDS Naturals, FiniteSets

CONSTANTS
  Handlers,   \* what conn_init can return
  Limit       \* connections at a time

VARIABLES
  phase,      \* "off", "on", "stopping", "exited", or "aborted"
  handlers    \* made by conn_init and not yet taken by conn_destroy

threadVars == <<phase, handlers>>

ThreadTypeOK ==
  /\ phase \in {"off", "on", "stopping", "exited", "aborted"}
  /\ handlers \subseteq Handlers

ThreadInit == phase = "off" /\ handlers = {}

Runs == phase \in {"on", "stopping"}

Started == phase = "off" /\ phase' = "on" /\ UNCHANGED handlers

Stopped == phase = "on" /\ phase' = "stopping" /\ UNCHANGED handlers

\* conn_init for a new client.
HandlerMade(h) ==
  /\ Runs
  /\ h \notin handlers
  /\ Cardinality(handlers) < Limit
  /\ handlers' = handlers \cup {h}
  /\ UNCHANGED phase

\* conn_destroy.
HandlerTaken(h) ==
  /\ Runs
  /\ h \in handlers
  /\ handlers' = handlers \ {h}
  /\ UNCHANGED phase

\* The thread ends, because it was asked to or because it gave up; the
\* handlers it still had are destroyed.
Ended == Runs /\ phase' = "exited" /\ handlers' = {}

Joined == phase = "exited" /\ phase' = "off" /\ UNCHANGED handlers

\* The process is gone.
Aborted == Runs /\ phase' = "aborted" /\ UNCHANGED handlers

ThreadNext ==
  \/ Started \/ Stopped \/ Ended \/ Joined \/ Aborted
  \/ \E h \in Handlers : HandlerMade(h) \/ HandlerTaken(h)

ThreadSpec == ThreadInit /\ [][ThreadNext]_threadVars

=============================================================================

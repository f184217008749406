------------------------------- MODULE Httpd -------------------------------
(***************************************************************************)
(* The HTTP/RTSP server of src/lib/httpd.c: one thread that accepts         *)
(* connections into a table of max_connections slots, feeds what it reads   *)
(* to a per-connection parser and hands complete requests to the owner's    *)
(* callbacks, and the application thread that starts and stops it.          *)
(*                                                                         *)
(* Only the server thread touches the table, so one pass over one socket is *)
(* one action.  A connection's user_data, which conn_init allocates and     *)
(* conn_destroy frees, is a member of Users; a request is the set of the    *)
(* users whose bytes its parser was fed.                                    *)
(***************************************************************************)
EXTENDS Integers, FiniteSets

CONSTANTS
  max_connections,
  Users,         \* what conn_init can return
  None,          \* no user_data, or no request
  CallsMayFail   \* may select, accept, recv and conn_init fail?

ASSUME HttpdAssumption ==
  /\ max_connections \in Nat \ {0}
  /\ None \notin Users
  /\ CallsMayFail \in BOOLEAN

Connections == 0 .. max_connections - 1

VARIABLES
  running, joined,    \* locked by run_mutex
  connected, user_data, request,   \* the fields of connections[i]
  open_connections,
  serverOpen,         \* server_fd4 listens
  thread,             \* where the server thread is
  ready,              \* the connections FD_ISSET reports
  stopper,            \* where httpd_stop is
  live,               \* allocated by conn_init, not yet freed by conn_destroy
  backlog,            \* a client waits to be accepted
  unread,             \* connections with data, or an end of file, to read
  blocked             \* the client being answered takes no more bytes

tableVars   == <<connected, user_data, request, open_connections, live>>
lockedVars  == <<running, joined>>
networkVars == <<backlog, unread, blocked>>
vars == <<tableVars, lockedVars, networkVars, serverOpen, thread, ready, stopper>>

Connected == {i \in Connections : connected[i]}

ThreadStates == {"none", "check", "select", "accept", "scan", "send",
                 "closing", "exited", "aborted"}

TypeOK ==
  /\ running \in BOOLEAN /\ joined \in BOOLEAN
  /\ serverOpen \in BOOLEAN /\ backlog \in BOOLEAN /\ blocked \in BOOLEAN
  /\ connected \in [Connections -> BOOLEAN]
  /\ user_data \in [Connections -> Users \cup {None}]
  /\ request \in [Connections -> (SUBSET Users) \cup {None}]
  /\ open_connections \in 0 .. max_connections
  /\ thread \in ThreadStates
  /\ ready \subseteq Connected
  /\ unread \subseteq Connected
  /\ stopper \in {"idle", "join", "markJoined", "aborted"}
  /\ live \subseteq Users

Init ==
  /\ running = FALSE /\ joined = TRUE
  /\ connected = [i \in Connections |-> FALSE]
  /\ user_data = [i \in Connections |-> None]
  /\ request = [i \in Connections |-> None]
  /\ open_connections = 0
  /\ serverOpen = FALSE
  /\ thread = "none"
  /\ ready = {}
  /\ stopper = "idle"
  /\ live = {}
  /\ backlog = FALSE
  /\ unread = {}
  /\ blocked = FALSE

-----------------------------------------------------------------------------
(* The application thread *)

\* When a socket or listen call fails nothing changes that is ever read.
Start ==
  /\ stopper = "idle"
  /\ ~running
  /\ joined
  /\ running' = TRUE
  /\ joined' = FALSE
  /\ serverOpen' = TRUE
  /\ thread' = "check"
  /\ UNCHANGED <<tableVars, networkVars, ready, stopper>>

Stop ==
  /\ stopper = "idle"
  /\ running
  /\ ~joined
  /\ running' = FALSE
  /\ stopper' = "join"
  /\ UNCHANGED <<tableVars, networkVars, joined, serverOpen, thread, ready>>

(* A broken form: the thread is not waited for. *)
Join_DoesNotWait ==
  /\ stopper = "join"
  /\ stopper' = "markJoined"
  /\ UNCHANGED <<tableVars, lockedVars, networkVars, serverOpen, thread, ready>>

Join ==
  /\ stopper = "join"
  /\ thread = "exited"
  /\ thread' = "none"
  /\ stopper' = "markJoined"
  /\ UNCHANGED <<tableVars, lockedVars, networkVars, serverOpen, ready>>

MarkJoined ==
  /\ stopper = "markJoined"
  /\ joined' = TRUE
  /\ stopper' = "idle"
  /\ UNCHANGED <<tableVars, networkVars, running, serverOpen, thread, ready>>

-----------------------------------------------------------------------------
(* The clients (external): they connect, send and hang up when they please. *)

ClientConnects ==
  /\ serverOpen
  /\ backlog' = TRUE
  /\ UNCHANGED <<tableVars, lockedVars, unread, blocked, serverOpen, thread, ready,
                 stopper>>

ClientSends(i) ==
  /\ connected[i]
  /\ unread' = unread \cup {i}
  /\ UNCHANGED <<tableVars, lockedVars, backlog, blocked, serverOpen, thread, ready,
                 stopper>>

\* The client reads the response, or is gone and the send fails: it need not.
ClientReads ==
  /\ blocked
  /\ blocked' = FALSE
  /\ UNCHANGED <<tableVars, lockedVars, backlog, unread, serverOpen, thread, ready,
                 stopper>>

-----------------------------------------------------------------------------
(* The server thread *)

(* A broken form: running is looked at only without clients. *)
CheckRunning_AfterClients ==
  /\ thread = "check"
  /\ thread' = IF running \/ unread # {} THEN "select" ELSE "closing"
  /\ UNCHANGED <<tableVars, lockedVars, networkVars, serverOpen, ready, stopper>>

CheckRunning ==
  /\ thread = "check"
  /\ thread' = IF running THEN "select" ELSE "closing"
  /\ UNCHANGED <<tableVars, lockedVars, networkVars, serverOpen, ready, stopper>>

\* The listening socket is selected only while a slot is free.
AcceptReady == backlog /\ open_connections < max_connections

SelectTimeout ==
  /\ thread = "select"
  /\ ~AcceptReady
  /\ unread = {}
  /\ thread' = "check"
  /\ UNCHANGED <<tableVars, lockedVars, networkVars, serverOpen, ready, stopper>>

\* The thread gives up although nobody asked it to; running stays set.
SelectError ==
  /\ thread = "select"
  /\ CallsMayFail
  /\ thread' = "closing"
  /\ UNCHANGED <<tableVars, lockedVars, networkVars, serverOpen, ready, stopper>>

SelectReady ==
  /\ thread = "select"
  /\ AcceptReady \/ unread # {}
  /\ thread' = IF AcceptReady THEN "accept" ELSE "scan"
  /\ ready' = unread
  /\ UNCHANGED <<tableVars, lockedVars, networkVars, serverOpen, stopper>>

AcceptFails ==
  /\ thread = "accept"
  /\ CallsMayFail
  /\ thread' = "closing"
  /\ ready' = {}
  /\ backlog' = FALSE
  /\ UNCHANGED <<tableVars, lockedVars, unread, blocked, serverOpen, stopper>>

\* getsockname or conn_init fails, or no slot is free: the client is dropped
\* and the sockets that were readable wait for the next select.
AcceptRefused ==
  /\ thread = "accept"
  /\ Connected # Connections => CallsMayFail
  /\ thread' = "check"
  /\ ready' = {}
  /\ backlog' = FALSE
  /\ UNCHANGED <<tableVars, lockedVars, unread, blocked, serverOpen, stopper>>

\* httpd_accept_connection and httpd_add_connection, in the first free slot.
Accept(u, i) ==
  /\ thread = "accept"
  /\ ~connected[i]
  /\ \A j \in Connections : j < i => connected[j]
  /\ u \notin live
  /\ live' = live \cup {u}
  /\ open_connections' = open_connections + 1
  /\ connected' = [connected EXCEPT ![i] = TRUE]
  /\ user_data' = [user_data EXCEPT ![i] = u]
  /\ backlog' = FALSE
  /\ thread' = "scan"
  /\ UNCHANGED <<request, lockedVars, unread, blocked, serverOpen, ready, stopper>>

(* A broken form: the request stays in its slot. *)
Remove_KeepsRequest(i) ==
  /\ live' = live \ {user_data[i]}
  /\ connected' = [connected EXCEPT ![i] = FALSE]
  /\ open_connections' = open_connections - 1
  /\ unread' = unread \ {i}
  /\ UNCHANGED <<user_data, request>>

(* A broken form: open_connections is not decremented. *)
Remove_KeepsCount(i) ==
  /\ request' = [request EXCEPT ![i] = None]
  /\ live' = live \ {user_data[i]}
  /\ connected' = [connected EXCEPT ![i] = FALSE]
  /\ unread' = unread \ {i}
  /\ UNCHANGED <<user_data, open_connections>>

(* A broken form: conn_destroy is not called. *)
Remove_KeepsUser(i) ==
  /\ request' = [request EXCEPT ![i] = None]
  /\ connected' = [connected EXCEPT ![i] = FALSE]
  /\ open_connections' = open_connections - 1
  /\ unread' = unread \ {i}
  /\ UNCHANGED <<user_data, live>>

\* httpd_remove_connection; user_data keeps its dangling value.
Remove(i) ==
  /\ request' = [request EXCEPT ![i] = None]
  /\ live' = live \ {user_data[i]}
  /\ connected' = [connected EXCEPT ![i] = FALSE]
  /\ open_connections' = open_connections - 1
  /\ unread' = unread \ {i}
  /\ UNCHANGED user_data

(* A broken form: only the first readable connection is served. *)
Serving_Breaks(i) ==
  /\ thread = "scan"
  /\ i \in ready
  /\ \A j \in ready : i <= j
  /\ ready' = {}
  /\ UNCHANGED <<lockedVars, backlog, serverOpen, stopper>>

\* The pass over the connections has reached i.
Serving(i) ==
  /\ thread = "scan"
  /\ i \in ready
  /\ \A j \in ready : i <= j
  /\ ready' = ready \ {i}
  /\ UNCHANGED <<lockedVars, backlog, serverOpen, stopper>>

\* What recv returns has been given to the parser, a new one if need be.
Fed(i) == (IF request[i] = None THEN {} ELSE request[i]) \cup {user_data[i]}

\* The client hung up, or what it sent does not parse.
Disconnect(i) == Serving(i) /\ Remove(i) /\ UNCHANGED <<thread, blocked>>

RequestIncomplete(i) ==
  /\ Serving(i)
  /\ request' = [request EXCEPT ![i] = Fed(i)]
  /\ unread' = unread \ {i}
  /\ UNCHANGED <<connected, user_data, open_connections, live, thread, blocked>>

\* conn_request makes no response (the request has no CSeq).
RequestUnanswered(i) ==
  /\ Serving(i)
  /\ request' = [request EXCEPT ![i] = None]
  /\ unread' = unread \ {i}
  /\ UNCHANGED <<connected, user_data, open_connections, live, thread, blocked>>

\* conn_request makes one, and the loop that sends it begins: the socket is a
\* blocking one.
RequestAnswered(i) ==
  /\ thread = "scan"
  /\ i \in ready
  /\ \A j \in ready : i <= j
  /\ request' = [request EXCEPT ![i] = None]
  /\ unread' = unread \ {i}
  /\ thread' = "send"
  /\ blocked' \in BOOLEAN
  /\ UNCHANGED <<connected, user_data, open_connections, live, lockedVars, backlog,
                 serverOpen, ready, stopper>>

\* All of it is sent, or a send fails, which is ignored; the response may ask
\* for the connection to be closed (TEARDOWN).
SendEnds(i) ==
  /\ thread = "send"
  /\ ~blocked
  /\ i \in ready
  /\ \A j \in ready : i <= j
  /\ thread' = "scan"
  /\ ready' = ready \ {i}
  /\ \/ Remove(i)
     \/ UNCHANGED <<tableVars, unread>>
  /\ UNCHANGED <<lockedVars, backlog, blocked, serverOpen, stopper>>

\* recv fails and the parser is told to read -1 bytes: any outcome of the
\* actions above, or the end of the process.
RecvFails ==
  /\ thread = "scan"
  /\ ready # {}
  /\ CallsMayFail
  /\ thread' = "aborted"
  /\ stopper' = "aborted"
  /\ UNCHANGED <<tableVars, lockedVars, networkVars, serverOpen, ready>>

ScanDone ==
  /\ thread = "scan"
  /\ ready = {}
  /\ thread' = "check"
  /\ UNCHANGED <<tableVars, lockedVars, networkVars, serverOpen, ready, stopper>>

CloseConnection(i) ==
  /\ thread = "closing"
  /\ connected[i]
  /\ \A j \in Connected : i <= j
  /\ Remove(i)
  /\ ready' = ready \ {i}
  /\ UNCHANGED <<lockedVars, backlog, blocked, serverOpen, thread, stopper>>

(* A broken form: the connections stay open. *)
CloseServer_LeavesConnections ==
  /\ thread = "closing"
  /\ serverOpen' = FALSE
  /\ backlog' = FALSE
  /\ thread' = "exited"
  /\ UNCHANGED <<tableVars, lockedVars, unread, blocked, ready, stopper>>

CloseServer ==
  /\ thread = "closing"
  /\ Connected = {}
  /\ serverOpen' = FALSE
  /\ backlog' = FALSE
  /\ thread' = "exited"
  /\ UNCHANGED <<tableVars, lockedVars, unread, blocked, ready, stopper>>

ServerNext ==
  \/ CheckRunning
  \/ SelectTimeout \/ SelectError \/ SelectReady
  \/ AcceptFails \/ AcceptRefused
  \/ \E u \in Users, i \in Connections : Accept(u, i)
  \/ \E i \in Connections :
       \/ Disconnect(i) \/ RequestIncomplete(i) \/ RequestUnanswered(i)
       \/ RequestAnswered(i) \/ SendEnds(i)
  \/ RecvFails
  \/ ScanDone
  \/ \E i \in Connections : CloseConnection(i)
  \/ CloseServer

ClientNext ==
  \/ ClientConnects
  \/ \E i \in Connections : ClientSends(i)
  \/ ClientReads

Next == Start \/ Stop \/ Join \/ MarkJoined \/ ClientNext \/ ServerNext

Spec == Init /\ [][Next]_vars

\* The server thread is scheduled and httpd_stop, once called, goes on.
FairSpec == Spec /\ WF_vars(ServerNext) /\ WF_vars(Join) /\ WF_vars(MarkJoined)

-----------------------------------------------------------------------------
(* What the owner of the callbacks sees of it: the phase of the thread, which *)
(* is stopping from the moment running is cleared, and the handlers.          *)

Phase ==
  CASE thread = "none" -> "off"
    [] thread \in {"exited", "aborted"} -> thread
    [] OTHER -> IF running THEN "on" ELSE "stopping"

Callbacks == INSTANCE ServerThread WITH
  Handlers <- Users, Limit <- max_connections, phase <- Phase, handlers <- live

ImplementsThread == Callbacks!ThreadSpec

-----------------------------------------------------------------------------
(* Properties *)

\* open_connections, which decides whether the listening socket is selected,
\* counts the slots in use over every order of accepts and removals.
CountIsExact == open_connections = Cardinality(Connected)

\* httpd_add_connection finds a free slot ("This code should never be reached,
\* we do not select server_fds when full", httpd.c:112).
SlotForAccept == thread = "accept" => Connected # Connections

\* Each handler conn_init allocated belongs to exactly one connection and is
\* freed exactly once: none leaks, none is shared or used after it was freed.
UsersAreOwned ==
  /\ live = {user_data[i] : i \in Connected}
  /\ \A i, j \in Connected : user_data[i] = user_data[j] => i = j

\* Whatever the interleaving of partial requests, hang-ups and reused slots, a
\* parser is fed the bytes of its own connection only.
OwnRequest ==
  \A i \in Connections :
    request[i] # None => connected[i] /\ request[i] = {user_data[i]}

\* A server that may be started again has no thread, socket, connection or
\* handler left; the table is never abandoned while the thread lives.
StoppedIsQuiet ==
  /\ ~(running /\ joined)
  /\ joined => thread = "none" /\ ~serverOpen /\ Connected = {} /\ live = {}
  /\ thread \in {"none", "exited"} => Connected = {}

\* No client holds the thread in send for ever: the server sets no timeout on
\* its sockets, so a client that neither reads its response nor hangs up stops
\* everything (httpd.c:316-324), and both properties below are about the others.
ClientsRead == []<>~blocked

\* httpd_stop returns, however busy the clients are and whatever fails, as long
\* as they read what they are sent, unless the process is gone.
StopReturns ==
  ClientsRead => ((stopper = "join") ~> (stopper \in {"idle", "aborted"}))

\* Every readable connection is read: none starves behind the others, behind new
\* clients or behind responses that are slow to go out, and one the dying thread
\* no longer reads is closed.  Clients refused for ever can also keep the thread
\* from the others, since it goes back to select each time (httpd.c:253-255).
ClientsAreServed ==
  ClientsRead /\ <>[][~AcceptRefused]_vars =>
    \A i \in Connections : (i \in unread) ~> (i \notin unread \/ thread = "aborted")
=============================================================================

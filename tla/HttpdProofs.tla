---------------------------- MODULE HttpdProofs ----------------------------
(***************************************************************************)
(* What holds of Httpd for every table size and every set of handlers.      *)
(*                                                                         *)
(* The inductive invariant adds to the properties what ties the two threads *)
(* together: which positions of httpd_stop go with which values of running  *)
(* and joined, when the server thread exists, and that the listening socket *)
(* is only ever accepted from while the count is below the limit.           *)
(***************************************************************************)
EXTENDS Httpd, FiniteSetTheorems, TLAPS

USE DEF ThreadStates

ThreadsInv ==
  /\ stopper = "idle" => (joined <=> thread = "none")
  /\ stopper = "join" => ~running /\ ~joined /\ thread # "none"
  /\ stopper = "markJoined" => ~running /\ ~joined /\ thread = "none"
  /\ joined => ~running /\ thread = "none"
  /\ thread \in {"none", "exited"} => ~serverOpen
  /\ thread = "exited" => stopper # "markJoined"

AcceptInv ==
  /\ thread = "accept" => open_connections < max_connections
  /\ thread \in {"none", "check", "select", "closing", "exited"} => ready = {}

IInv ==
  /\ TypeOK
  /\ CountIsExact
  /\ UsersAreOwned
  /\ OwnRequest
  /\ ThreadsInv
  /\ AcceptInv
  /\ thread \in {"none", "exited"} => Connected = {}
-----------------------------------------------------------------------------
(* The table *)

LEMMA Table == IsFiniteSet(Connections) /\ Cardinality(Connections) = max_connections
  BY FS_Interval, HttpdAssumption DEF Connections

LEMMA ConnectedFinite == IsFiniteSet(Connected)
  BY Table, FS_Subset DEF Connected

\* Taking a slot adds one to the number of connected ones,
LEMMA TakeSlot ==
  ASSUME connected \in [Connections -> BOOLEAN],
         NEW i \in Connections, ~connected[i],
         connected' = [connected EXCEPT ![i] = TRUE]
  PROVE  /\ Connected' = Connected \cup {i}
         /\ Cardinality(Connected') = Cardinality(Connected) + 1
<1>1. Connected' = Connected \cup {i}  BY DEF Connected
<1>2. i \notin Connected  BY DEF Connected
<1> QED  BY <1>1, <1>2, ConnectedFinite, FS_AddElement

\* and freeing one takes one away.
LEMMA FreeSlot ==
  ASSUME connected \in [Connections -> BOOLEAN],
         NEW i \in Connections, connected[i],
         connected' = [connected EXCEPT ![i] = FALSE]
  PROVE  /\ Connected' = Connected \ {i}
         /\ Cardinality(Connected') = Cardinality(Connected) - 1
<1>1. Connected' = Connected \ {i}  BY DEF Connected
<1>2. i \in Connected  BY DEF Connected
<1> QED  BY <1>1, <1>2, ConnectedFinite, FS_RemoveElement

\* A removal keeps everything the table promises.
LEMMA RemoveStep ==
  ASSUME TypeOK, CountIsExact, UsersAreOwned, OwnRequest,
         NEW i \in Connections, connected[i], Remove(i)
  PROVE  /\ connected' \in [Connections -> BOOLEAN]
         /\ user_data' \in [Connections -> Users \cup {None}]
         /\ request' \in [Connections -> (SUBSET Users) \cup {None}]
         /\ open_connections' \in 0 .. max_connections
         /\ live' \subseteq Users
         /\ unread' \subseteq Connected'
         /\ Connected' = Connected \ {i}
         /\ CountIsExact'
         /\ UsersAreOwned'
         /\ OwnRequest'
<1>1. /\ Connected' = Connected \ {i}
      /\ Cardinality(Connected') = Cardinality(Connected) - 1
  BY FreeSlot DEF Remove, TypeOK
<1>2. CountIsExact'  BY <1>1 DEF CountIsExact, Remove
<1>3. Cardinality(Connected') \in Nat
  BY <1>1, ConnectedFinite, FS_RemoveElement, FS_CardinalityType
<1>4. open_connections' \in 0 .. max_connections
  BY <1>2, <1>3, HttpdAssumption DEF CountIsExact, TypeOK, Remove
<1>5. UsersAreOwned'
  BY <1>1 DEF UsersAreOwned, Remove, Connected
<1>6. OwnRequest'
  BY DEF OwnRequest, Remove, TypeOK
<1>7. unread' \subseteq Connected'
  BY <1>1 DEF Remove, TypeOK
<1> QED  BY <1>1, <1>2, <1>4, <1>5, <1>6, <1>7 DEF Remove, TypeOK

\* So does taking the connection the listening socket reported.
LEMMA AcceptStep ==
  ASSUME IInv, NEW u \in Users, NEW i \in Connections, Accept(u, i)
  PROVE  IInv'
<1> USE DEF Accept
<1>1. connected \in [Connections -> BOOLEAN]  BY DEF IInv, TypeOK
<1>2. /\ Connected' = Connected \cup {i}
      /\ Cardinality(Connected') = Cardinality(Connected) + 1
  BY <1>1, TakeSlot
<1>3. CountIsExact'  BY <1>2 DEF IInv, CountIsExact
<1>4. TypeOK'
  <2>1. open_connections' \in 0 .. max_connections
    BY HttpdAssumption DEF IInv, TypeOK, AcceptInv
  <2> QED  BY <1>2, <2>1 DEF IInv, TypeOK, lockedVars
<1>5. UsersAreOwned'
  <2>1. live' = {user_data'[j] : j \in Connected'}
    BY <1>2 DEF IInv, UsersAreOwned, TypeOK, Connected
  <2>2. \A j \in Connected : user_data[j] # u
    BY DEF IInv, UsersAreOwned
  <2>3. ASSUME NEW j \in Connected', NEW k \in Connected',
               user_data'[j] = user_data'[k]
        PROVE  j = k
    BY <1>2, <2>2, <2>3 DEF IInv, UsersAreOwned, TypeOK, Connected
  <2> QED  BY <2>1, <2>3 DEF UsersAreOwned
<1>6. OwnRequest'  BY DEF IInv, OwnRequest, TypeOK
<1>7. ThreadsInv' /\ AcceptInv'  BY DEF IInv, ThreadsInv, AcceptInv, lockedVars
<1> QED  BY <1>3, <1>4, <1>5, <1>6, <1>7 DEF IInv

\* A slot is only accepted for while one is free.
LEMMA FreeSlotExists == IInv => SlotForAccept
<1> SUFFICES ASSUME IInv, thread = "accept" PROVE Connected # Connections
  BY DEF SlotForAccept
<1> QED  BY Table, HttpdAssumption DEF IInv, AcceptInv, CountIsExact

-----------------------------------------------------------------------------
(* The inductive invariant *)

LEMMA IInvInit == Init => IInv
<1> SUFFICES ASSUME Init PROVE IInv  OBVIOUS
<1>1. Connected = {}  BY DEF Init, Connected
<1>2. CountIsExact  BY <1>1, FS_EmptySet DEF Init, CountIsExact
<1>3. TypeOK
  <2>1. open_connections \in 0 .. max_connections  BY HttpdAssumption DEF Init
  <2> QED  BY <1>1, <2>1 DEF Init, TypeOK
<1>4. UsersAreOwned /\ OwnRequest  BY <1>1 DEF Init, UsersAreOwned, OwnRequest
<1>5. ThreadsInv /\ AcceptInv  BY DEF Init, ThreadsInv, AcceptInv
<1> QED  BY <1>1, <1>2, <1>3, <1>4, <1>5 DEF IInv

\* A step that leaves the table alone keeps what is said of it.
LEMMA TableKept ==
  ASSUME IInv, UNCHANGED tableVars
  PROVE  Connected' = Connected /\ CountIsExact' /\ UsersAreOwned' /\ OwnRequest'
  BY DEF IInv, tableVars, Connected, CountIsExact, UsersAreOwned, OwnRequest

LEMMA IInvStep == IInv /\ [Next]_vars => IInv'
<1> SUFFICES ASSUME IInv, [Next]_vars PROVE IInv'  OBVIOUS
<1> USE DEF lockedVars, networkVars
<1>1. CASE Start
  <2>1. UNCHANGED tableVars  BY <1>1 DEF Start
  <2> QED  BY <1>1, <2>1, TableKept
           DEF Start, IInv, TypeOK, ThreadsInv, AcceptInv, tableVars
<1>2. CASE Stop
  <2>1. UNCHANGED tableVars  BY <1>2 DEF Stop
  <2> QED  BY <1>2, <2>1, TableKept
           DEF Stop, IInv, TypeOK, ThreadsInv, AcceptInv, tableVars
<1>3. CASE Join
  <2>1. UNCHANGED tableVars  BY <1>3 DEF Join
  <2> QED  BY <1>3, <2>1, TableKept
           DEF Join, IInv, TypeOK, ThreadsInv, AcceptInv, tableVars
<1>4. CASE MarkJoined
  <2>1. UNCHANGED tableVars  BY <1>4 DEF MarkJoined
  <2> QED  BY <1>4, <2>1, TableKept
           DEF MarkJoined, IInv, TypeOK, ThreadsInv, AcceptInv, tableVars
<1>5. CASE ClientConnects
  <2>1. UNCHANGED tableVars  BY <1>5 DEF ClientConnects
  <2> QED  BY <1>5, <2>1, TableKept
           DEF ClientConnects, IInv, TypeOK, ThreadsInv, AcceptInv, tableVars
<1>6. ASSUME NEW i \in Connections, ClientSends(i) PROVE IInv'
  <2>1. UNCHANGED tableVars  BY <1>6 DEF ClientSends
  <2>2. i \in Connected  BY <1>6 DEF ClientSends, Connected
  <2> QED  BY <1>6, <2>1, <2>2, TableKept
           DEF ClientSends, IInv, TypeOK, ThreadsInv, AcceptInv, tableVars
<1>7. CASE CheckRunning \/ SelectTimeout \/ SelectError \/ SelectReady
  <2>1. UNCHANGED tableVars
    BY <1>7 DEF CheckRunning, SelectTimeout, SelectError, SelectReady
  <2>2. TypeOK'
    BY <1>7, <2>1, TableKept
    DEF CheckRunning, SelectTimeout, SelectError, SelectReady, IInv, TypeOK, tableVars
  <2>3. ThreadsInv'
    BY <1>7 DEF CheckRunning, SelectTimeout, SelectError, SelectReady, IInv, ThreadsInv
  <2>4. AcceptInv'
    BY <1>7, <2>1
    DEF CheckRunning, SelectTimeout, SelectError, SelectReady, AcceptReady, IInv,
        AcceptInv, tableVars
  <2>5. thread' \notin {"none", "exited"}
    BY <1>7 DEF CheckRunning, SelectTimeout, SelectError, SelectReady
  <2> QED  BY <2>1, <2>2, <2>3, <2>4, <2>5, TableKept DEF IInv
<1>8. CASE AcceptFails \/ AcceptRefused
  <2> USE <1>8 DEF AcceptFails, AcceptRefused
  <2>1. UNCHANGED tableVars  OBVIOUS
  <2>2. TypeOK'  BY <2>1, TableKept DEF IInv, TypeOK, tableVars
  <2>3. ThreadsInv' /\ AcceptInv'  BY DEF IInv, ThreadsInv, AcceptInv
  <2>4. thread' \notin {"none", "exited"}  OBVIOUS
  <2> QED  BY <2>1, <2>2, <2>3, <2>4, TableKept DEF IInv
<1>9. ASSUME NEW u \in Users, NEW i \in Connections, Accept(u, i) PROVE IInv'
  BY <1>9, AcceptStep
<1>10. ASSUME NEW i \in Connections, Disconnect(i) PROVE IInv'
  <2>1. connected[i]  BY <1>10 DEF Disconnect, Serving, IInv, TypeOK, Connected
  <2>2. Remove(i)  BY <1>10 DEF Disconnect
  <2>3. TypeOK' /\ CountIsExact' /\ UsersAreOwned' /\ OwnRequest'
    BY <1>10, <2>1, <2>2, RemoveStep DEF Disconnect, Serving, IInv, TypeOK
  <2> QED  BY <1>10, <2>3 DEF Disconnect, Serving, IInv, ThreadsInv, AcceptInv
<1>11. ASSUME NEW i \in Connections,
              RequestIncomplete(i) \/ RequestUnanswered(i) \/ RequestAnswered(i)
       PROVE  IInv'
  <2> USE <1>11 DEF RequestIncomplete, RequestUnanswered, RequestAnswered, Serving
  <2>1. connected[i]  BY DEF IInv, TypeOK, Connected
  <2>2. user_data[i] \in Users
    BY <2>1 DEF IInv, TypeOK, UsersAreOwned, Connected
  <2>3. Fed(i) = {user_data[i]}
    BY <2>1 DEF Fed, IInv, OwnRequest
  <2>4. Connected' = Connected  BY DEF Connected
  <2>5. CountIsExact' /\ UsersAreOwned'
    BY <2>4 DEF IInv, CountIsExact, UsersAreOwned
  <2>6. TypeOK'  BY <2>2, <2>3, <2>4 DEF IInv, TypeOK
  <2>7. OwnRequest'  BY <2>1, <2>3 DEF IInv, OwnRequest, TypeOK
  <2>8. ThreadsInv' /\ AcceptInv'  BY DEF IInv, ThreadsInv, AcceptInv
  <2> QED  BY <2>5, <2>6, <2>7, <2>8 DEF IInv
<1>12. CASE RecvFails \/ ScanDone
  <2>1. UNCHANGED tableVars  BY <1>12 DEF RecvFails, ScanDone
  <2> QED  BY <1>12, <2>1, TableKept
           DEF RecvFails, ScanDone, IInv, TypeOK, ThreadsInv, AcceptInv, tableVars
<1>13. ASSUME NEW i \in Connections, CloseConnection(i) PROVE IInv'
  <2>1. connected[i] /\ Remove(i)  BY <1>13 DEF CloseConnection
  <2>2. TypeOK' /\ CountIsExact' /\ UsersAreOwned' /\ OwnRequest'
    BY <1>13, <2>1, RemoveStep DEF CloseConnection, IInv, TypeOK
  <2> QED  BY <1>13, <2>2 DEF CloseConnection, IInv, ThreadsInv, AcceptInv
<1>14. CASE CloseServer
  <2>1. UNCHANGED tableVars  BY <1>14 DEF CloseServer
  <2> QED  BY <1>14, <2>1, TableKept
           DEF CloseServer, IInv, TypeOK, ThreadsInv, AcceptInv, tableVars
<1>15. CASE ClientReads
  <2>1. UNCHANGED tableVars  BY <1>15 DEF ClientReads
  <2> QED  BY <1>15, <2>1, TableKept
           DEF ClientReads, IInv, TypeOK, ThreadsInv, AcceptInv, tableVars
<1>16. ASSUME NEW i \in Connections, SendEnds(i) PROVE IInv'
  <2>1. connected[i]  BY <1>16 DEF SendEnds, IInv, TypeOK, Connected
  <2>2. thread' = "scan" /\ ready' = ready \ {i}  BY <1>16 DEF SendEnds
  <2>3. ThreadsInv' /\ AcceptInv'
    BY <1>16, <2>2 DEF SendEnds, IInv, ThreadsInv, AcceptInv
  <2>4. CASE Remove(i)
    <3>1. TypeOK' /\ CountIsExact' /\ UsersAreOwned' /\ OwnRequest'
      BY <1>16, <2>1, <2>4, RemoveStep DEF SendEnds, IInv, TypeOK
    <3> QED  BY <2>2, <2>3, <3>1 DEF IInv
  <2>5. CASE UNCHANGED <<tableVars, unread>>
    <3>1. TypeOK'
      BY <1>16, <2>2, <2>5, TableKept DEF SendEnds, IInv, TypeOK, tableVars
    <3> QED  BY <2>2, <2>3, <2>5, <3>1, TableKept DEF IInv
  <2> QED  BY <1>16, <2>4, <2>5 DEF SendEnds
<1>17. CASE UNCHANGED vars
  <2>1. UNCHANGED tableVars  BY <1>17 DEF vars
  <2> QED  BY <1>17, <2>1, TableKept
           DEF vars, IInv, TypeOK, ThreadsInv, AcceptInv, tableVars
<1> QED
  BY <1>1, <1>2, <1>3, <1>4, <1>5, <1>6, <1>7, <1>8, <1>9, <1>10, <1>11, <1>12,
     <1>13, <1>14, <1>15, <1>16, <1>17 DEF Next, ClientNext, ServerNext

LEMMA IInvHolds == Spec => []IInv
  BY IInvInit, IInvStep, PTL DEF Spec

-----------------------------------------------------------------------------
(* What it gives *)

\* Every variable of the server keeps its range, the count of connections
\* included (struct httpd_s).
THEOREM TypeCorrect == Spec => []TypeOK
  BY IInvHolds, PTL DEF IInv

\* open_connections counts the slots in use, so that the code that says it
\* should never be reached (httpd.c:112) is not.
THEOREM CountCorrect == Spec => [](CountIsExact /\ SlotForAccept)
<1>1. IInv => CountIsExact /\ SlotForAccept  BY FreeSlotExists DEF IInv
<1> QED  BY <1>1, IInvHolds, PTL

\* Handlers are allocated and freed one for one with connections
\* (httpd_add_connection, httpd_remove_connection).
THEOREM OwnershipCorrect == Spec => []UsersAreOwned
<1>1. IInv => UsersAreOwned  BY DEF IInv
<1> QED  BY <1>1, IInvHolds, PTL

\* A request under way belongs to the connection whose bytes it is fed, and dies
\* with it: no parser sees another client's bytes (httpd_thread's receive path,
\* httpd_remove_connection).
THEOREM RequestsCorrect == Spec => []OwnRequest
<1>1. IInv => OwnRequest  BY DEF IInv
<1> QED  BY <1>1, IInvHolds, PTL

\* A stopped server has nothing left (httpd_thread's exit path, httpd_stop).
THEOREM StoppedCorrect == Spec => []StoppedIsQuiet
<1>1. IInv => StoppedIsQuiet
  <2> SUFFICES ASSUME IInv PROVE StoppedIsQuiet  OBVIOUS
  <2>1. Connected = {} => live = {}  BY DEF IInv, UsersAreOwned
  <2>2. joined => thread = "none"  BY DEF IInv, ThreadsInv, TypeOK
  <2> QED  BY <2>1, <2>2 DEF IInv, StoppedIsQuiet, ThreadsInv
<1> QED  BY <1>1, IInvHolds, PTL
-----------------------------------------------------------------------------
(* What its owner sees *)

\* There are no more handlers than connections.
LEMMA HandlersCounted ==
  IInv => IsFiniteSet(live) /\ Cardinality(live) <= open_connections
<1> SUFFICES ASSUME IInv PROVE IsFiniteSet(live) /\ Cardinality(live) <= open_connections
  OBVIOUS
<1> DEFINE owned == [i \in Connected |-> user_data[i]]
<1>1. owned \in Surjection(Connected, live)
  BY DEF IInv, UsersAreOwned, Surjection
<1>2. IsFiniteSet(live) /\ Cardinality(live) <= Cardinality(Connected)
  BY <1>1, ConnectedFinite, FS_Surjection
<1> QED  BY <1>2 DEF IInv, CountIsExact

\* A connection's handler is one of those alive.
LEMMA HandlerOf ==
  ASSUME IInv, NEW i \in Connections, connected[i]
  PROVE  user_data[i] \in live /\ user_data[i] \in Users
  BY DEF IInv, TypeOK, UsersAreOwned, Connected

LEMMA ThreadInitMaps == Init => Callbacks!ThreadInit
  BY DEF Init, Callbacks!ThreadInit, Phase

LEMMA ThreadStepMaps ==
  IInv /\ [Next]_vars => [Callbacks!ThreadNext]_(Callbacks!threadVars)
<1> SUFFICES ASSUME IInv, [Next]_vars
             PROVE  [Callbacks!ThreadNext]_(Callbacks!threadVars)
  OBVIOUS
<1> USE DEF Callbacks!threadVars, Phase
<1>1. CASE Start
  <2>1. thread = "none"  BY <1>1 DEF Start, IInv, ThreadsInv
  <2> QED  BY <1>1, <2>1 DEF Start, tableVars, Callbacks!ThreadNext, Callbacks!Started
<1>2. CASE Stop
  <2>1. CASE thread \in {"none", "exited", "aborted"}
    BY <1>2, <2>1 DEF Stop, tableVars
  <2>2. CASE thread \notin {"none", "exited", "aborted"}
    BY <1>2, <2>2 DEF Stop, tableVars, Callbacks!ThreadNext, Callbacks!Stopped
  <2> QED  BY <2>1, <2>2
<1>3. CASE Join
  BY <1>3 DEF Join, tableVars, lockedVars, Callbacks!ThreadNext, Callbacks!Joined
<1>4. CASE MarkJoined \/ ClientConnects \/ ClientReads
           \/ \E i \in Connections : ClientSends(i)
  BY <1>4 DEF MarkJoined, ClientConnects, ClientReads, ClientSends, tableVars, lockedVars
<1>5. CASE CheckRunning \/ SelectTimeout \/ SelectError \/ SelectReady
           \/ AcceptFails \/ AcceptRefused \/ ScanDone
  BY <1>5 DEF CheckRunning, SelectTimeout, SelectError, SelectReady, AcceptFails,
     AcceptRefused, ScanDone, tableVars, lockedVars
<1>6. ASSUME NEW u \in Users, NEW i \in Connections, Accept(u, i)
      PROVE  Callbacks!HandlerMade(u)
  <2>1. open_connections < max_connections  BY <1>6 DEF Accept, IInv, AcceptInv
  <2>2. Cardinality(live) \in Nat  BY HandlersCounted, FS_CardinalityType
  <2>3. Cardinality(live) < max_connections
    BY <2>1, <2>2, HandlersCounted, HttpdAssumption DEF IInv, TypeOK
  <2>4. Callbacks!Runs /\ UNCHANGED Phase
    BY <1>6 DEF Accept, lockedVars, Callbacks!Runs
  <2>5. u \notin live /\ live' = live \cup {u}  BY <1>6 DEF Accept
  <2>6. Callbacks!Cardinality(live) = Cardinality(live)
    BY DEF Cardinality, Callbacks!Cardinality
  <2> QED  BY <2>3, <2>4, <2>5, <2>6 DEF Callbacks!HandlerMade
<1>7. ASSUME NEW i \in Connections, Disconnect(i) \/ CloseConnection(i)
      PROVE  \E h \in Users : Callbacks!HandlerTaken(h)
  <2>1. connected[i] /\ live' = live \ {user_data[i]}
    BY <1>7 DEF Disconnect, Serving, CloseConnection, Remove, IInv, TypeOK, Connected
  <2>2. thread \in {"scan", "closing"} /\ UNCHANGED <<thread, running>>
    BY <1>7 DEF Disconnect, Serving, CloseConnection, lockedVars
  <2>3. Callbacks!HandlerTaken(user_data[i])
    BY <2>1, <2>2, HandlerOf DEF Callbacks!HandlerTaken, Callbacks!Runs
  <2> QED  BY <2>1, <2>3, HandlerOf
<1>8. ASSUME NEW i \in Connections,
             RequestIncomplete(i) \/ RequestUnanswered(i) \/ RequestAnswered(i)
      PROVE  UNCHANGED Callbacks!threadVars
  BY <1>8 DEF RequestIncomplete, RequestUnanswered, RequestAnswered, Serving, lockedVars
<1>9. CASE RecvFails
  BY <1>9 DEF RecvFails, tableVars, lockedVars, Callbacks!ThreadNext,
     Callbacks!Aborted, Callbacks!Runs
<1>10. CASE CloseServer
  <2>1. live = {} /\ live' = {}
    BY <1>10 DEF CloseServer, tableVars, IInv, UsersAreOwned
  <2> QED  BY <1>10, <2>1
           DEF CloseServer, lockedVars, Callbacks!ThreadNext, Callbacks!Ended,
               Callbacks!Runs
<1>11. ASSUME NEW i \in Connections, SendEnds(i)
       PROVE  \/ UNCHANGED Callbacks!threadVars
              \/ \E h \in Users : Callbacks!HandlerTaken(h)
  <2>1. connected[i] /\ thread = "send" /\ thread' = "scan" /\ running' = running
    BY <1>11 DEF SendEnds, IInv, TypeOK, Connected, lockedVars
  <2>2. CASE live' = live
    BY <2>1, <2>2
  <2>3. CASE live' = live \ {user_data[i]}
    <3>1. Callbacks!HandlerTaken(user_data[i])
      BY <2>1, <2>3, HandlerOf DEF Callbacks!HandlerTaken, Callbacks!Runs
    <3> QED  BY <2>1, <3>1, HandlerOf
  <2> QED  BY <1>11, <2>2, <2>3 DEF SendEnds, Remove, tableVars
<1>12. CASE UNCHANGED vars
  BY <1>12 DEF vars, tableVars, lockedVars
<1> QED
  <2>1. CASE \E u \in Users, i \in Connections : Accept(u, i)
    BY <1>6, <2>1 DEF Callbacks!ThreadNext
  <2>2. CASE \E i \in Connections : Disconnect(i) \/ CloseConnection(i)
    BY <1>7, <2>2 DEF Callbacks!ThreadNext
  <2>3. CASE \E i \in Connections :
               RequestIncomplete(i) \/ RequestUnanswered(i) \/ RequestAnswered(i)
    BY <1>8, <2>3
  <2>4. CASE \E i \in Connections : SendEnds(i)
    BY <1>11, <2>4 DEF Callbacks!ThreadNext
  <2> QED
    BY <1>1, <1>2, <1>3, <1>4, <1>5, <1>9, <1>10, <1>12, <2>1, <2>2, <2>3, <2>4
    DEF Next, ClientNext, ServerNext

\* The thread of httpd.c makes and destroys a handler per connection, no more at
\* a time than the table has slots, only while it runs, and ends without one:
\* httpd_start, httpd_stop and httpd_thread do what the owner of the callbacks
\* may rely on (httpd.h).
THEOREM HttpdImplementsThread ==
  Spec => ImplementsThread /\ []Callbacks!ThreadTypeOK
<1>1. Init => Callbacks!ThreadInit  BY ThreadInitMaps
<1>2. IInv /\ [Next]_vars => [Callbacks!ThreadNext]_(Callbacks!threadVars)
  BY ThreadStepMaps
<1>3. IInv => Callbacks!ThreadTypeOK
  BY DEF IInv, TypeOK, Phase, Callbacks!ThreadTypeOK
<1> QED  BY <1>1, <1>2, <1>3, IInvHolds, PTL
         DEF Spec, ImplementsThread, Callbacks!ThreadSpec
=============================================================================

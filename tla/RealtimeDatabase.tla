-------------------------- MODULE RealtimeDatabase --------------------------
(***************************************************************************)
(* The Firebase Database client of RxGithub, for the one list of comments  *)
(* a screen shows: FRepo, FSyncTree (see SyncTree) and                     *)
(* FPersistentConnection, with the server they talk to.                    *)
(*                                                                         *)
(* Calls of the app are jobs of the serial queue "FirebaseWorker" (work),  *)
(* on which the connection's callbacks run too; value events are posted to *)
(* the main queue (events).  A connection carries requests and answers in  *)
(* order; when it is lost both channels are, and the client connects       *)
(* again, listens again and sends every unanswered put again, unless the   *)
(* server has killed the connection.                                       *)
(*                                                                         *)
(* The server is not in the repository: it is modelled from what the       *)
(* client relies on.  It handles requests in order; it tells a client that *)
(* listens of every change before it answers the put that made it; it      *)
(* sends the list to a new listener unless the listener's hash equals it.  *)
(***************************************************************************)
EXTENDS SyncTree

CONSTANTS
    InitialLists,  \* the lists the server may hold at the start
    MaxFaults,     \* lost and killed connections, failed tokens, refused listens
    MaxRemote      \* changes of the list by other clients

ASSUME InitialAssumption == InitialLists \subseteq Node
ASSUME BoundsAssumption == MaxFaults \in Nat /\ MaxRemote \in Nat

VARIABLES
    work,            \* jobs dispatched to the worker queue
    events,          \* value events dispatched to the main queue
    connectionState, \* "interrupted": disconnected, with a reason not to reconnect
    allWrites,       \* FWriteTree: writes the server has not answered
    visibleWrites,
    writeIdCounter,
    view,            \* the registration of the list's view, 0 for no view
    serverSnap,
    eventSnap,
    listens,         \* the listen of the list, 0 for none
    outstandingPuts, \* ids of the puts that wait for an answer
    putsToAck,       \* answers held back while a listen is unanswered
    acking,          \* the worker is inside ackPuts
    unackedListensCount,
    toServer,
    toClient,
    data,            \* the list on the server
    watched,         \* the server sends the list's changes on this connection
    faults,
    remote

caches == <<allWrites, visibleWrites, serverSnap, eventSnap, view>>
connection == <<connectionState, toServer, toClient>>
pending == <<outstandingPuts, putsToAck, unackedListensCount, listens>>
server == <<data, watched, remote>>
vars == <<work, events, caches, writeIdCounter, connection, pending, acking,
          server, faults>>

Connected == connectionState = "connected"

PutRequest(w) == [op |-> "put", write |-> w]
ListenRequest(l, hash) == [op |-> "listen", listen |-> l, hash |-> hash]
UnlistenRequest == [op |-> "unlisten"]

Update(path, value) == [kind |-> "data", path |-> path, value |-> value]
ListenAnswer(l, ok) == [kind |-> "listen", listen |-> l, ok |-> ok]
PutAnswer(id, ok) == [kind |-> "put", id |-> id, ok |-> ok]

-----------------------------------------------------------------------------
(* FEventRaiser, FSyncTree.ackUserWrite *)

\* The view's event snap becomes evt, and its observer is told when it changed.
Raise(evt) ==
    /\ eventSnap' = evt
    /\ events' = IF view # 0 /\ RaisesValue(eventSnap, evt)
                 THEN Append(events, [to |-> view, node |-> evt.node])
                 ELSE events

WriteIndex(id) == CHOOSE i \in DOMAIN allWrites : allWrites[i].id = id

\* FRepo.ackWrite: the write is forgotten, and reverted unless it succeeded.
AckWrite(id, ok) ==
    LET i    == WriteIndex(id)
        path == allWrites[i].path
        vis  == VisibleWithout(visibleWrites, allWrites, i)
    IN  /\ allWrites' = RemoveAt(allWrites, i)
        /\ visibleWrites' = vis
        /\ Raise(IF view = 0 \/ Shadowed(allWrites, i) THEN eventSnap
                 ELSE IF ok THEN EventAfterAck(serverSnap, eventSnap, vis, path)
                 ELSE EventAfterRevert(serverSnap, eventSnap, vis, path))
        /\ UNCHANGED <<serverSnap, view>>

-----------------------------------------------------------------------------
(* Jobs of the worker queue *)

Job(op) == ~acking /\ work # <<>> /\ Head(work).op = op /\ work' = Tail(work)

\* FRepo.set
SetValue ==
    /\ Job("set")
    /\ LET w == [id |-> writeIdCounter, path |-> Head(work).path]
       IN  /\ allWrites' = Append(allWrites, w)
           /\ visibleWrites' = AddWrite(visibleWrites, w.path)
           /\ Raise(IF view = 0 THEN eventSnap
                    ELSE UserOverwrite(eventSnap, w.path))
           /\ outstandingPuts' = outstandingPuts \cup {w.id}
           /\ toServer' = IF Connected THEN Append(toServer, PutRequest(w))
                          ELSE toServer
    /\ writeIdCounter' = writeIdCounter + 1
    /\ UNCHANGED <<serverSnap, view, connectionState, toClient, putsToAck,
                   unackedListensCount, listens, acking, server, faults>>

\* FSyncTree.addEventRegistration, FPersistentConnection.listen
AddObserver ==
    /\ Job("observe")
    /\ LET s == Head(work).screen
           evt == NewEventSnap(visibleWrites)
       IN  /\ view' = s
           /\ serverSnap' = NewServerSnap
           /\ eventSnap' = evt
           /\ events' = IF evt.complete
                        THEN Append(events, [to |-> s, node |-> evt.node])
                        ELSE events
           /\ listens' = s
           /\ toServer' = IF Connected
                          THEN Append(toServer, ListenRequest(s, NewServerSnap.node))
                          ELSE toServer
    /\ unackedListensCount' = unackedListensCount + (IF Connected THEN 1 ELSE 0)
    /\ UNCHANGED <<allWrites, visibleWrites, writeIdCounter, connectionState,
                   toClient, outstandingPuts, putsToAck, acking, server, faults>>

\* FSyncTree.removeEventRegistration, FPersistentConnection.unlisten; a view
\* that a refused listen has removed is gone already.
RemoveObserver ==
    /\ Job("remove")
    /\ IF view = Head(work).screen
       THEN /\ view' = 0
            /\ serverSnap' = NewServerSnap
            /\ eventSnap' = NewServerSnap
            /\ listens' = 0
            /\ toServer' = IF Connected /\ listens # 0
                           THEN Append(toServer, UnlistenRequest) ELSE toServer
       ELSE UNCHANGED <<view, serverSnap, eventSnap, listens, toServer>>
    /\ UNCHANGED <<events, allWrites, visibleWrites, writeIdCounter,
                   connectionState, toClient, outstandingPuts, putsToAck,
                   unackedListensCount, acking, server, faults>>

-----------------------------------------------------------------------------
(* FPersistentConnection: connecting *)

idleQueues == <<work, events, caches, writeIdCounter, acking>>

\* tryScheduleReconnect: the retry fires and asks for a token.
Retry ==
    /\ ~acking /\ connectionState = "disconnected"
    /\ connectionState' = "gettingToken"
    /\ UNCHANGED <<idleQueues, toServer, toClient, pending, server, faults>>

TokenFetched ==
    /\ ~acking /\ connectionState = "gettingToken"
    /\ connectionState' = "connecting"
    /\ UNCHANGED <<idleQueues, toServer, toClient, pending, server, faults>>

TokenFailed ==
    /\ ~acking /\ connectionState = "gettingToken" /\ faults < MaxFaults
    /\ connectionState' = "disconnected"
    /\ faults' = faults + 1
    /\ UNCHANGED <<idleQueues, toServer, toClient, pending, server>>

\* Mutant: puts that were sent on the lost connection are not sent again.
RestoreListens ==
    IF listens = 0 THEN <<>> ELSE <<ListenRequest(listens, serverSnap.node)>>

\* sortedArrayUsingSelector:@selector(compare:)
Ascending(ids) ==
    [i \in 1 .. Cardinality(ids) |->
        CHOOSE n \in ids : Cardinality({m \in ids : m < n}) = i - 1]

\* Mutant: the outstanding puts are not sorted.
RestoreUnsorted ==
    (IF listens = 0 THEN <<>> ELSE <<ListenRequest(listens, serverSnap.node)>>)
        \o [i \in 1 .. Cardinality(outstandingPuts) |->
              PutRequest(allWrites[WriteIndex(Reverse(Ascending(outstandingPuts))[i])])]

\* restoreState: first the listens, then the outstanding puts in order.
RestoreState ==
    (IF listens = 0 THEN <<>> ELSE <<ListenRequest(listens, serverSnap.node)>>)
        \o [i \in 1 .. Cardinality(outstandingPuts) |->
              PutRequest(allWrites[WriteIndex(Ascending(outstandingPuts)[i])])]

\* onReady, restoreAuth
Ready ==
    /\ ~acking /\ connectionState = "connecting"
    /\ connectionState' = "connected"
    /\ toServer' = RestoreState
    /\ unackedListensCount' =
         unackedListensCount + (IF listens = 0 THEN 0 ELSE 1)
    /\ UNCHANGED <<idleQueues, toClient, outstandingPuts, putsToAck, listens,
                   server, faults>>

\* Mutant: answers of the lost connection are still handled.
LoseConnectionKeepsAnswers(state) ==
    /\ ~acking /\ connectionState \in {"connecting", "connected"}
    /\ faults < MaxFaults
    /\ connectionState' = state
    /\ toServer' = <<>>
    /\ watched' = FALSE
    /\ unackedListensCount' = 0
    /\ faults' = faults + 1
    /\ UNCHANGED <<idleQueues, toClient, outstandingPuts, putsToAck, listens,
                   data, remote>>

\* onDisconnect: the answers of this connection will not come.
LoseConnection(state) ==
    /\ ~acking /\ connectionState \in {"connecting", "connected"}
    /\ faults < MaxFaults
    /\ connectionState' = state
    /\ toServer' = <<>>
    /\ toClient' = <<>>
    /\ watched' = FALSE
    /\ unackedListensCount' = 0
    /\ faults' = faults + 1
    /\ UNCHANGED <<idleQueues, outstandingPuts, putsToAck, listens, data, remote>>

\* The network, or a reset by the server: shouldReconnect, so it is tried again.
Disconnect == LoseConnection("disconnected")

\* onKill: the server shuts the connection down, and interruptReasons keeps the
\* client from trying again as long as it lives.
Kill == LoseConnection("interrupted")

-----------------------------------------------------------------------------
(* FPersistentConnection: messages of the server *)

Message(kind) ==
    /\ ~acking /\ toClient # <<>> /\ Head(toClient).kind = kind
    /\ toClient' = Tail(toClient)

\* FRepo.onDataUpdate; without a view nobody is interested.
OnDataUpdate ==
    /\ Message("data")
    /\ LET m   == Head(toClient)
           srv == ServerSnapAfter(serverSnap, m.path, m.value)
       IN  IF view = 0 THEN UNCHANGED <<serverSnap, eventSnap, events>>
           ELSE /\ serverSnap' = srv
                /\ Raise(EventAfterServer(srv, eventSnap, visibleWrites, m.path))
    /\ UNCHANGED <<work, allWrites, visibleWrites, view, writeIdCounter,
                   connectionState, toServer, pending, acking, server, faults>>

\* Mutant: the put stays among the outstanding ones.
OnPutAnswerKeepsPut ==
    /\ Message("put")
    /\ LET m == Head(toClient)
       IN  IF m.id \notin outstandingPuts \/ unackedListensCount # 0
           THEN UNCHANGED <<putsToAck, caches, events>>
           ELSE AckWrite(m.id, m.ok) /\ UNCHANGED putsToAck
    /\ UNCHANGED <<work, writeIdCounter, connectionState, toServer, outstandingPuts,
                   unackedListensCount, listens, acking, server, faults>>

\* The answer to a put is held back while a listen is unanswered, for the data
\* that contains the put comes with the answer to the listen.
OnPutAnswer ==
    /\ Message("put")
    /\ LET m == Head(toClient)
       IN  IF m.id \notin outstandingPuts
           THEN UNCHANGED <<outstandingPuts, putsToAck, caches, events>>
           ELSE /\ outstandingPuts' = outstandingPuts \ {m.id}
                /\ IF unackedListensCount = 0
                   THEN AckWrite(m.id, m.ok) /\ UNCHANGED putsToAck
                   ELSE /\ putsToAck' = Append(putsToAck, [id |-> m.id, ok |-> m.ok])
                        /\ UNCHANGED <<caches, events>>
    /\ UNCHANGED <<work, writeIdCounter, connectionState, toServer,
                   unackedListensCount, listens, acking, server, faults>>

\* sendListen's onResponse: a refused listen removes the view; the comments'
\* observer has no cancel callback and is not told.
OnListenAnswer ==
    /\ Message("listen")
    /\ LET m   == Head(toClient)
           srv == [serverSnap EXCEPT !.complete = TRUE]
       IN  IF m.listen # listens
           THEN UNCHANGED <<view, serverSnap, eventSnap, events, listens>>
           ELSE IF m.ok
           THEN /\ serverSnap' = srv
                /\ Raise(EventAfterServer(srv, eventSnap, visibleWrites, Top))
                /\ UNCHANGED <<view, listens>>
           ELSE /\ view' = 0
                /\ serverSnap' = NewServerSnap
                /\ eventSnap' = NewServerSnap
                /\ listens' = 0
                /\ UNCHANGED events
    /\ unackedListensCount' = unackedListensCount - 1
    /\ acking' = (unackedListensCount = 1 /\ putsToAck # <<>>)
    /\ UNCHANGED <<work, allWrites, visibleWrites, writeIdCounter,
                   connectionState, toServer, outstandingPuts, putsToAck,
                   server, faults>>

\* One round of ackPuts' loop; the main thread may run between two rounds.
AckPuts ==
    /\ acking
    /\ AckWrite(Head(putsToAck).id, Head(putsToAck).ok)
    /\ putsToAck' = Tail(putsToAck)
    /\ acking' = (Len(putsToAck) > 1)
    /\ UNCHANGED <<work, writeIdCounter, connection, outstandingPuts,
                   unackedListensCount, listens, server, faults>>

-----------------------------------------------------------------------------
(* The server *)

clientSide == <<work, events, caches, writeIdCounter, connectionState, pending,
                acking>>

Request(op) ==
    /\ toServer # <<>> /\ Head(toServer).op = op
    /\ toServer' = Tail(toServer)
    /\ UNCHANGED clientSide

ServeListen(ok) ==
    /\ Request("listen")
    /\ ok \/ faults < MaxFaults
    /\ watched' = ok
    /\ faults' = faults + (IF ok THEN 0 ELSE 1)
    /\ LET r == Head(toServer)
       IN  toClient' = toClient
                       \o (IF ok /\ r.hash # data THEN <<Update(Top, data)>> ELSE <<>>)
                       \o <<ListenAnswer(r.listen, ok)>>
    /\ UNCHANGED <<data, remote>>

ServeUnlisten ==
    /\ Request("unlisten")
    /\ watched' = FALSE
    /\ UNCHANGED <<toClient, data, remote, faults>>

ServePut(ok) ==
    /\ Request("put")
    /\ LET w   == Head(toServer).write
           new == IF ok THEN UpdateChild(data, w.path, Leaf) ELSE data
       IN  /\ data' = new
           /\ toClient' = toClient
                          \o (IF watched /\ new # data
                              THEN <<Update(w.path, Leaf)>> ELSE <<>>)
                          \o <<PutAnswer(w.id, ok)>>
    /\ UNCHANGED <<watched, remote, faults>>

\* Another client adds a comment or removes one.
RemoteChange(k, value) ==
    /\ remote < MaxRemote
    /\ UpdateChild(data, k, value) # data
    /\ data' = UpdateChild(data, k, value)
    /\ toClient' = IF watched THEN Append(toClient, Update(k, value)) ELSE toClient
    /\ remote' = remote + 1
    /\ UNCHANGED <<clientSide, toServer, watched, faults>>

-----------------------------------------------------------------------------

DatabaseInit ==
    /\ work = <<>> /\ events = <<>>
    /\ connectionState = "disconnected"
    /\ allWrites = <<>> /\ visibleWrites = EmptyWrite /\ writeIdCounter = 1
    /\ view = 0 /\ serverSnap = NewServerSnap /\ eventSnap = NewServerSnap
    /\ listens = 0 /\ outstandingPuts = {} /\ putsToAck = <<>>
    /\ acking = FALSE /\ unackedListensCount = 0
    /\ toServer = <<>> /\ toClient = <<>>
    /\ data \in InitialLists /\ watched = FALSE
    /\ faults = 0 /\ remote = 0

Worker ==
    \/ SetValue \/ AddObserver \/ RemoveObserver
    \/ OnDataUpdate \/ OnPutAnswer \/ OnListenAnswer \/ AckPuts

Connecting == Retry \/ TokenFetched \/ Ready

Serving ==
    \/ \E ok \in BOOLEAN : ServeListen(ok) \/ ServePut(ok)
    \/ ServeUnlisten

DatabaseNext ==
    \/ Worker \/ Connecting \/ Serving
    \/ TokenFailed \/ Disconnect \/ Kill
    \/ \E k \in Keys, value \in {Leaf, {}} : RemoteChange(k, value)
=============================================================================

------------------------------- MODULE Gateway -------------------------------
(***************************************************************************)
(* The connection handler of src/server.js with session resumption, and    *)
(* the process around it (src/index.js): authentication, resumption,       *)
(* frames, token refreshes, migrations, teardown, graceful shutdown and    *)
(* restart, over a session store that is shared (Redis) and outlives the   *)
(* process, or kept in its memory, as it is when index.js starts it.       *)
(*                                                                         *)
(* A step is one turn of the event loop: what a handler does between two   *)
(* awaits.  A session state is abstracted to its owner and its rooms; the  *)
(* acknowledged marks, fences and rate windows travel with it unseen.      *)
(* Room limits and the store's expiry appear as choices.                   *)
(***************************************************************************)
EXTENDS Naturals, Sequences, FiniteSets

CONSTANTS
  Clients, Rooms,             \* client ids and room ids
  Conns,                      \* WebSocket objects, numbered in the order of their connections
  NoClient, NoConn, NoState,  \* null
  Deployments                 \* what clients, the store and the process do, and bounds

Features ==
  {"redis", "jwks", "overlap", "refresh", "migrate", "locations", "rejects", "shutdown", "crash"}

\* A deployment has the clients that connect, what happens in it, and bounds on the
\* connections and on the saves under way.
ASSUME GatewayAssumption ==
  /\ NoClient \notin Clients
  /\ Conns \subseteq Nat /\ NoConn \notin Conns
  /\ \A d \in Deployments : /\ d.clients \subseteq Clients
                            /\ d.features \subseteq Features
                            /\ d.maxConns \in Nat /\ d.maxCalls \in Nat

State == [clientId : Clients, rooms : SUBSET Rooms]

ASSUME StateAssumption == NoState \notin State

VARIABLES
  deployment,     \* the deployment, for good
  conn,           \* per socket: its handler's progress and its session context
  member,         \* RoomManager: client -> room -> socket
  liveClients,    \* client -> connection whose context is live
  localSessions,  \* client -> last known state, for the sticky cookie
  pending,        \* client -> connection whose context the debounced save will capture
  calls,          \* saves on their way to the store, in order
  store,          \* the session store: client -> saved state
  handed,         \* states whose blobs clients were given out of this store
  saving,         \* saveAllSessions(): clients visited and blobs so far
  stage,          \* the process: up, the phases of shutdown, exited
  lastRooms,      \* history: rooms of the client at its latest change or close
  touched         \* history: whether that connection ever scheduled a save

sessionVars == <<localSessions, pending, calls, store, handed, saving>>
history == <<lastRooms, touched>>
vars == <<deployment, conn, member, liveClients, sessionVars, stage, history>>

Has(feature) == feature \in deployment.features

NoFrame == [type |-> "none"]

NoSocket ==
  [step |-> "none", sock |-> "none", token |-> NoClient, blob |-> NoState, cookie |-> FALSE, id |-> NoClient,
   frozen |-> NoState, inbox |-> NoFrame, awaits |-> NoClient, verifies |-> NoClient,
   touched |-> FALSE, interrupted |-> FALSE]

NoMembers == [c \in Clients |-> [r \in Rooms |-> NoConn]]
Nobody == [c \in Clients |-> NoConn]
NoStates == [c \in Clients |-> NoState]
NotSaving == [visited |-> {}, blobs |-> NoStates]

Init ==
  /\ deployment \in Deployments
  /\ conn = [k \in Conns |-> NoSocket]
  /\ member = NoMembers /\ liveClients = Nobody /\ localSessions = NoStates
  /\ pending = Nobody /\ calls = <<>> /\ saving = NotSaving
  /\ store = NoStates
  /\ handed = {}
  /\ stage = "up"
  /\ lastRooms = [c \in Clients |-> {}]
  /\ touched = [c \in Clients |-> FALSE]

-------------------------------------------------------------------------------
(* Session contexts *)

RoomsIn(m, c) == {r \in Rooms : m[c][r] # NoConn}

\* Faulty variant: the snapshot taken at the close is not used.
CaptureStateLive(ctx, m) == [clientId |-> ctx.id, rooms |-> RoomsIn(m, ctx.id)]

\* captureState() of a context, given the memberships of the moment.
CaptureState(ctx, m) ==
  IF ctx.frozen # NoState THEN ctx.frozen
  ELSE [clientId |-> ctx.id, rooms |-> RoomsIn(m, ctx.id)]

\* touchSession(): the local cache at once, the store after the debounce.
TouchSession(k, ctx, m) ==
  /\ localSessions' = [localSessions EXCEPT ![ctx.id] = CaptureState(ctx, m)]
  /\ pending' = [pending EXCEPT ![ctx.id] = k]
  /\ conn' = [conn EXCEPT ![k] = [ctx EXCEPT !.touched = TRUE]]
  /\ IF ctx.sock = "closed" THEN UNCHANGED history
     ELSE /\ lastRooms' = [lastRooms EXCEPT ![ctx.id] = RoomsIn(m, ctx.id)]
          /\ touched' = [touched EXCEPT ![ctx.id] = TRUE]

Call(c, state, by, k) == [client |-> c, state |-> state, by |-> by, conn |-> k]

\* Blobs that clients may present.  Those of an earlier process can still be opened after
\* its store is gone, since the key comes with the environment.
Blobs ==
  {NoState} \cup
  (IF Has("redis") THEN handed ELSE [clientId : deployment.clients, rooms : SUBSET Rooms])

Space == Len(calls) < deployment.maxCalls

\* Faulty variant: the pending save is cancelled and not started.
FlushForgets(c, contexts) ==
  /\ pending' = [pending EXCEPT ![c] = NoConn]
  /\ UNCHANGED calls

\* sessions.flush() of a client with a pending save: what its context shows goes out.
Flush(c, contexts) ==
  /\ Space
  /\ calls' = Append(calls, Call(c, CaptureState(contexts[pending[c]], member), "flush", NoConn))
  /\ pending' = [pending EXCEPT ![c] = NoConn]

\* Faulty variant: whoever leaves takes the live context of its id along.
LiveWithoutId(c, k) == NoConn

\* The live context of an id when connection k gives the id up.
LiveWithout(c, k) == IF liveClients[c] = k THEN NoConn ELSE liveClients[c]

-------------------------------------------------------------------------------
(* The connection handler *)

Connected == {k \in Conns : conn[k].sock \in {"open", "closing"}}   \* wss.clients

\* No handler of the connection is still running or to come.
Over(k) ==
  /\ k \notin Connected
  /\ conn[k].step \notin {"auth", "load"}
  /\ conn[k].awaits = NoClient /\ conn[k].verifies = NoClient
  /\ conn[k].inbox = NoFrame

\* The ids a connection has, has presented, or waits to have a token for verified.
Uses(k) ==
  {conn[k].token, conn[k].id, conn[k].verifies} \cup
  {f.to : f \in {g \in {conn[k].inbox} : g.type = "refresh"}}

\* Clients that do not overlap use an id when the gateway is done with its previous use.
Free(c, k) ==
  \/ Has("overlap")
  \/ \A j \in Conns \ {k} : c \in Uses(j) => Over(j)

\* A new socket; the connection and address limits let it in or not.
Connection(k, c, blob, cookie) ==
  /\ stage = "up" /\ conn[k] = NoSocket
  /\ k <= deployment.maxConns /\ \A j \in Conns : j < k => conn[j] # NoSocket
  /\ Free(c, k)
  /\ \/ conn' = [conn EXCEPT ![k].step = "auth", ![k].sock = "open",
                             ![k].token = c, ![k].blob = blob, ![k].cookie = cookie]
     \/ conn' = [conn EXCEPT ![k].step = "failed", ![k].sock = "closing"]
  /\ UNCHANGED <<deployment, member, liveClients, sessionVars, stage, history>>

CloseSocket(ctx) == IF ctx.sock = "open" THEN [ctx EXCEPT !.sock = "closing"] ELSE ctx

AuthFails(k) ==
  /\ conn[k].step = "auth"
  /\ conn' = [conn EXCEPT ![k] = [CloseSocket(@) EXCEPT !.step = "failed"]]
  /\ UNCHANGED <<deployment, member, liveClients, sessionVars, stage, history>>

\* restoreSession(): joins the rooms the limits admit and confirms.
RestoreSession(k, ctx, state) ==
  /\ \E restored \in SUBSET state.rooms :
       member' = [member EXCEPT ![ctx.id] = [r \in Rooms |-> IF r \in restored THEN k ELSE @[r]]]
  /\ TouchSession(k, ctx, member')
  /\ UNCHANGED <<calls, store, handed, saving>>

\* The token is good: the context goes live and resumption starts.  A blob has to be
\* looked up; the sticky cookie restores at once unless the cached state has expired.
AuthSucceeds(k) ==
  LET c == conn[k].token
      ctx == [conn[k] EXCEPT !.id = c, !.step = "ready", !.token = NoClient, !.cookie = FALSE]
  IN
  /\ conn[k].step = "auth"
  /\ liveClients' = [liveClients EXCEPT ![c] = k]
  /\ \/ /\ conn[k].blob # NoState
        /\ conn' = [conn EXCEPT ![k] = [ctx EXCEPT !.step = "load"]]
        /\ UNCHANGED <<member, sessionVars, history>>
     \/ /\ conn[k].blob = NoState /\ conn[k].cookie /\ localSessions[c] # NoState
        /\ RestoreSession(k, ctx, localSessions[c])
     \/ /\ conn[k].blob = NoState
        /\ conn' = [conn EXCEPT ![k] = ctx]
        /\ localSessions' = [localSessions EXCEPT
                               ![c] = IF conn[k].cookie THEN NoState ELSE @]
        /\ UNCHANGED <<member, pending, calls, store, handed, saving, history>>
  /\ UNCHANGED <<deployment, stage>>

\* sessions.load() settles: without an entry (or with a failed read) and with another
\* client's blob the connection goes on as a new session.
LoadSettles(k) ==
  LET ctx == [conn[k] EXCEPT !.step = "ready", !.blob = NoState]
      state == conn[k].blob
  IN
  /\ conn[k].step = "load"
  /\ \/ /\ store[state.clientId] # NoState
        /\ state.clientId = ctx.id
        /\ RestoreSession(k, ctx, state)
     \/ /\ store[state.clientId] = NoState \/ state.clientId # ctx.id \/ Has("rejects")
        /\ conn' = [conn EXCEPT ![k] = ctx]
        /\ UNCHANGED <<member, sessionVars, history>>
  /\ UNCHANGED <<deployment, liveClients, stage>>

Frames == [type : {"join", "leave"}, room : Rooms] \cup [type : {"ack", "location"}]
            \cup [type : {"refresh"}, to : deployment.clients]

\* A frame comes in; one that the rate limiter or the validator refuses changes nothing.
MayReceive(k, f) ==
  /\ conn[k].sock \in {"open", "closing"}
  /\ f.type = "refresh" => Has("refresh") /\ conn[k].verifies = NoClient /\ Free(f.to, k)
  /\ f.type = "location" => Has("locations") /\ conn[k].awaits = NoClient

\* Frames that arrive during resumption wait for it (one in this model).
FrameWaits(k, f) ==
  /\ conn[k].step = "load" /\ conn[k].inbox = NoFrame
  /\ MayReceive(k, f)
  /\ conn' = [conn EXCEPT ![k].inbox = f]
  /\ UNCHANGED <<deployment, member, liveClients, sessionVars, stage, history>>

\* The message handler, by the type of the frame; "ack" stands for reconnect too, and nack
\* changes nothing here.  A join that the limits refuse changes nothing; a location update
\* is touched only when its command settles.
Dispatch(k, ctx, f) ==
  \/ /\ f.type = "join"
     /\ \/ /\ member' = [member EXCEPT ![ctx.id][f.room] = k]
           /\ TouchSession(k, ctx, member')
        \/ /\ conn' = [conn EXCEPT ![k] = ctx]
           /\ UNCHANGED <<member, localSessions, pending, history>>
  \/ /\ f.type = "leave"
     /\ member' = [member EXCEPT ![ctx.id][f.room] = NoConn]
     /\ TouchSession(k, ctx, member')
  \/ /\ f.type = "ack"
     /\ TouchSession(k, ctx, member)
     /\ UNCHANGED member
  \/ /\ f.type = "location"
     /\ conn' = [conn EXCEPT ![k] = [ctx EXCEPT !.awaits = ctx.id]]
     /\ UNCHANGED <<member, localSessions, pending, history>>
  \/ /\ f.type = "refresh"
     /\ conn' = [conn EXCEPT ![k] = [ctx EXCEPT !.verifies = f.to]]
     /\ UNCHANGED <<member, localSessions, pending, history>>

HandleFrame(k, f) ==
  /\ conn[k].step = "ready"
  /\ MayReceive(k, f)
  /\ Dispatch(k, conn[k], f)
  /\ UNCHANGED <<deployment, liveClients, calls, store, handed, saving, stage>>

HandleWaiting(k) ==
  /\ conn[k].step = "ready" /\ conn[k].inbox # NoFrame
  /\ Dispatch(k, [conn[k] EXCEPT !.inbox = NoFrame], conn[k].inbox)
  /\ UNCHANGED <<deployment, liveClients, calls, store, handed, saving, stage>>

\* The subscriber of the commands: a committed location crossed a fence, which touches
\* the context that is live for the vehicle.
FenceCrossed(c) ==
  /\ \E k \in Conns : conn[k].awaits = c
  /\ liveClients[c] # NoConn
  /\ TouchSession(liveClients[c], conn[liveClients[c]], member)
  /\ UNCHANGED <<deployment, member, liveClients, calls, store, handed, saving, stage>>

\* The location command has settled and its handler goes on.
LocationSettles(k) ==
  /\ conn[k].awaits # NoClient
  /\ TouchSession(k, [conn[k] EXCEPT !.awaits = NoClient], member)
  /\ UNCHANGED <<deployment, member, liveClients, calls, store, handed, saving, stage>>

\* Faulty variant: the memberships are copied to the new id.
MembersCopied(old, new) ==
  [member EXCEPT ![new] = [r \in Rooms |-> IF member[old][r] # NoConn THEN member[old][r] ELSE @[r]]]

\* updateClientId() of the room manager.
MembersMoved(old, new) ==
  [member EXCEPT ![new] = [r \in Rooms |-> IF member[old][r] # NoConn THEN member[old][r] ELSE @[r]],
                 ![old] = [r \in Rooms |-> NoConn]]

\* The verification of a refreshed token settles; the id changes everywhere but in the
\* debounced save and the cache of the old one.
RefreshSettles(k) ==
  LET old == conn[k].id
      new == conn[k].verifies
      ctx == [conn[k] EXCEPT !.verifies = NoClient]
  IN
  /\ new # NoClient
  /\ \/ /\ conn' = [conn EXCEPT ![k] = ctx]
        /\ UNCHANGED <<member, liveClients, sessionVars, history>>
     \/ /\ old = new
        /\ TouchSession(k, ctx, member)
        /\ UNCHANGED <<member, liveClients, calls, store, handed, saving>>
     \/ /\ old # new
        /\ member' = MembersMoved(old, new)
        /\ liveClients' = [liveClients EXCEPT ![new] = k, ![old] = LiveWithout(old, k)]
        /\ TouchSession(k, [ctx EXCEPT !.id = new], member')
        /\ UNCHANGED <<calls, store, handed, saving>>
  /\ UNCHANGED <<deployment, stage>>

\* The teardown: the state is frozen and cached, the pending save is started, and then
\* the rooms of the id are left.
Teardown(k, id, gone) ==
  LET frozen == CaptureState(conn[k], member)
  IN
  /\ conn' = [gone EXCEPT ![k].frozen = frozen]
  /\ localSessions' = [localSessions EXCEPT ![id] = frozen]
  /\ liveClients' = [liveClients EXCEPT ![id] = LiveWithout(id, k)]
  /\ \/ pending[id] = NoConn /\ UNCHANGED <<calls, pending>>
     \/ pending[id] # NoConn /\ Flush(id, conn')
  /\ member' = [member EXCEPT ![id] = [r \in Rooms |-> NoConn]]
  /\ lastRooms' = [lastRooms EXCEPT ![id] = RoomsIn(member, id)]
  /\ touched' = [touched EXCEPT ![id] = conn[k].touched]
  /\ UNCHANGED <<store, handed, saving>>

\* Both close handlers, in one turn: the second, which is registered with the message
\* handler, finds the state frozen and nothing left to do.
Close(k) ==
  LET id == conn[k].id
      gone == [conn EXCEPT ![k].sock = "closed",
                           ![k].interrupted = conn[k].step \in {"auth", "load"}]
  IN
  /\ k \in Connected
  /\ \/ /\ id = NoClient
        /\ conn' = gone
        /\ UNCHANGED <<member, liveClients, sessionVars, history>>
     \/ id # NoClient /\ Teardown(k, id, gone)
  /\ UNCHANGED <<deployment, stage>>

-------------------------------------------------------------------------------
(* Saves *)

\* The debounce timer of a client fires.
TimerFires(c) ==
  /\ pending[c] # NoConn
  /\ Flush(c, conn)
  /\ UNCHANGED <<deployment, conn, member, liveClients, localSessions, store, handed, saving,
                 stage, history>>

\* migrateClient(): flush, then save what the context shows by then.
MigrateClient(c) ==
  LET k == liveClients[c]
  IN
  /\ Has("migrate") /\ stage = "up" /\ k # NoConn /\ Space
  /\ \A i \in 1 .. Len(calls) : calls[i].by \notin {"migrate_flush", "migrate"}
  /\ \/ /\ pending[c] # NoConn
        /\ calls' = Append(calls, Call(c, CaptureState(conn[pending[c]], member), "migrate_flush", k))
     \/ /\ pending[c] = NoConn
        /\ calls' = Append(calls, Call(c, CaptureState(conn[k], member), "migrate", k))
  /\ pending' = [pending EXCEPT ![c] = NoConn]
  /\ UNCHANGED <<deployment, conn, member, liveClients, localSessions, store, handed, saving,
                 stage, history>>

\* The loop of saveAllSessions(): the next live context, or the end of it, when the
\* clients are told about the shutdown and get their blobs.
SaveNext(rest, progress) ==
  LET todo == {c \in Clients : liveClients[c] # NoConn} \ progress.visited
      told == {conn[k].id : k \in {j \in Conns : conn[j].sock = "open"}} \ {NoClient}
  IN
  \/ \E c \in todo :
       LET state == CaptureState(conn[liveClients[c]], member)
       IN  /\ localSessions' = [localSessions EXCEPT ![c] = state]
           /\ calls' = Append(rest, Call(c, state, "all", liveClients[c]))
           /\ saving' = [progress EXCEPT !.visited = @ \cup {c}]
           /\ UNCHANGED handed
  \/ /\ todo = {}
     /\ calls' = rest
     /\ handed' = handed \cup ({progress.blobs[c] : c \in told} \ {NoState})
     /\ saving' = progress
     /\ UNCHANGED localSessions

\* Faulty variant: migrateClient() goes on although its save was rejected.
AfterMigrateSaveUnchecked(call, rest, ok) ==
  /\ calls' = rest
  /\ localSessions' = [localSessions EXCEPT ![call.client] = call.state]
  /\ handed' = IF conn[call.conn].sock = "open" THEN handed \cup {call.state} ELSE handed
  /\ conn' = [conn EXCEPT ![call.conn] = CloseSocket(@)]
  /\ UNCHANGED saving

\* migrateClient() after its save: the client gets the blob and is closed; a rejected
\* save leaves it where it is.
AfterMigrateSave(call, rest, ok) ==
  /\ calls' = rest
  /\ \/ /\ ok
        /\ localSessions' = [localSessions EXCEPT ![call.client] = call.state]
        /\ handed' = IF conn[call.conn].sock = "open" THEN handed \cup {call.state} ELSE handed
        /\ conn' = [conn EXCEPT ![call.conn] = CloseSocket(@)]
     \/ ~ok /\ UNCHANGED <<conn, localSessions, handed>>
  /\ UNCHANGED saving

\* What the caller of a save does once it has settled, well or badly.
Continues(call, rest, ok) ==
  \/ /\ call.by = "flush"
     /\ calls' = rest
     /\ UNCHANGED <<conn, localSessions, handed, saving>>
  \/ /\ call.by = "migrate_flush"
     /\ calls' = Append(rest, Call(call.client, CaptureState(conn[call.conn], member), "migrate", call.conn))
     /\ UNCHANGED <<conn, localSessions, handed, saving>>
  \/ /\ call.by = "migrate"
     /\ AfterMigrateSave(call, rest, ok)
  \/ /\ call.by = "all_flush"
     /\ \/ /\ \E i \in 1 .. Len(rest) : rest[i].by = "all_flush"
           /\ calls' = rest
           /\ UNCHANGED <<localSessions, handed, saving>>
        \/ /\ \A i \in 1 .. Len(rest) : rest[i].by # "all_flush"
           /\ SaveNext(rest, saving)
     /\ UNCHANGED conn
  \/ /\ call.by = "all"
     /\ SaveNext(rest, IF ok THEN [saving EXCEPT !.blobs[call.client] = call.state] ELSE saving)
     /\ UNCHANGED conn

SaveSettles(ok) ==
  /\ calls # <<>>
  /\ ok \/ Has("rejects")
  /\ store' = IF ok THEN [store EXCEPT ![Head(calls).client] = Head(calls).state] ELSE store
  /\ Continues(Head(calls), Tail(calls), ok)
  /\ UNCHANGED <<deployment, member, liveClients, pending, stage, history>>

-------------------------------------------------------------------------------
(* The process *)

\* The signal handler: no connection is accepted from now on.
Signal ==
  /\ Has("shutdown") /\ stage = "up"
  /\ stage' = "stopping"
  /\ UNCHANGED <<deployment, conn, member, liveClients, sessionVars, history>>

\* After 100 ms, saveAllSessions() starts with flushAll().
Notify ==
  LET dirty == {c \in Clients : pending[c] # NoConn}
  IN
  /\ stage = "stopping"
  /\ stage' = "notifying"
  /\ \/ /\ dirty = {}
        /\ SaveNext(calls, NotSaving)
     \/ /\ dirty # {}
        /\ \E order \in [1 .. Cardinality(dirty) -> dirty] :
             /\ {order[i] : i \in DOMAIN order} = dirty
             /\ calls' = calls \o [i \in DOMAIN order |->
                  Call(order[i], CaptureState(conn[pending[order[i]]], member), "all_flush", NoConn)]
        /\ UNCHANGED <<localSessions, handed, saving>>
  /\ pending' = Nobody
  /\ UNCHANGED <<deployment, conn, member, liveClients, store, history>>

\* After 500 ms the send buffers drain; when they are empty, and at the latest after
\* 3.5 s more, every open socket gets its close frame.
Drain ==
  /\ stage = "notifying"
  /\ stage' = "draining"
  /\ UNCHANGED <<deployment, conn, member, liveClients, sessionVars, history>>

CloseConnections ==
  /\ stage = "draining"
  /\ stage' = "closing"
  /\ conn' = [k \in Conns |-> CloseSocket(conn[k])]
  /\ UNCHANGED <<deployment, member, liveClients, sessionVars, history>>

\* A shared store that outlives the process: of the saves under way some first ones have
\* reached it.
SharedStoreRemains ==
  /\ \E n \in 0 .. Len(calls) :
       LET sent(c) == {i \in 1 .. n : calls[i].client = c}
           latest(c) == CHOOSE i \in sent(c) : \A j \in sent(c) : j <= i
       IN  store' = [c \in Clients |-> IF sent(c) = {} THEN store[c] ELSE calls[latest(c)].state]
  /\ UNCHANGED handed

\* The process ends and its memory is gone, a store in it too.
Exit ==
  /\ stage' = "exited"
  /\ conn' = [k \in Conns |-> IF conn[k] = NoSocket THEN NoSocket
                              ELSE [NoSocket EXCEPT !.step = "gone", !.sock = "closed"]]
  /\ member' = NoMembers /\ liveClients' = Nobody /\ localSessions' = NoStates
  /\ pending' = Nobody /\ calls' = <<>> /\ saving' = NotSaving
  /\ \/ Has("redis") /\ SharedStoreRemains
     \/ ~Has("redis") /\ store' = NoStates /\ handed' = {}
  /\ UNCHANGED <<deployment, history>>

\* The callback of wss.close(): every socket has closed.  The listener before it closes the
\* session manager, which drops its timers and empties a store in memory, in the same turn.
WssCloses ==
  /\ stage \in {"stopping", "notifying", "draining", "closing"}
  /\ Connected = {}
  /\ Exit

\* Faulty variant: there is no timer, only the callback of wss.close().
ForceExitNever == stage = "closing" /\ Connected = {} /\ Exit

\* The timer of 5 s, for clients that do not answer the close frame.
ForceExit == stage = "closing" /\ Exit

\* An uncaught error or rejection, or the end of the host.
Crash == Has("crash") /\ stage # "exited" /\ Exit

Restart ==
  /\ stage = "exited"
  /\ stage' = "up"
  /\ UNCHANGED <<deployment, conn, member, liveClients, sessionVars, history>>

-------------------------------------------------------------------------------
\* A promise that is already settled: its handler runs before the next event.
Urgent(k) ==
  \/ conn[k].step = "auth" /\ ~Has("jwks")
  \/ conn[k].verifies # NoClient /\ ~Has("jwks")
  \/ conn[k].step = "ready" /\ conn[k].inbox # NoFrame

Idle == \A k \in Conns : ~Urgent(k)

Event ==
  \/ \E k \in Conns, c \in deployment.clients, blob \in Blobs, cookie \in BOOLEAN :
       Connection(k, c, blob, cookie)
  \/ \E k \in Conns : LoadSettles(k) \/ LocationSettles(k) \/ Close(k)
  \/ \E k \in Conns, f \in Frames : FrameWaits(k, f) \/ HandleFrame(k, f)
  \/ \E c \in Clients : FenceCrossed(c) \/ TimerFires(c) \/ MigrateClient(c)
  \/ \E ok \in BOOLEAN : SaveSettles(ok)
  \/ Signal \/ Notify \/ Drain \/ CloseConnections
  \/ WssCloses \/ ForceExit \/ Crash \/ Restart

Next ==
  \/ \E k \in Conns : AuthFails(k) \/ AuthSucceeds(k) \/ RefreshSettles(k) \/ HandleWaiting(k)
  \/ Idle /\ Event

Spec == Init /\ [][Next]_vars

\* Timers fire and settled promises are taken up; neither the clients nor the store are
\* assumed to do anything.
FairSpec ==
  /\ Spec
  /\ WF_vars(\E k \in Conns : Urgent(k) /\ (AuthFails(k) \/ AuthSucceeds(k) \/ RefreshSettles(k) \/ HandleWaiting(k)))
  /\ WF_vars(Idle /\ (Notify \/ Drain \/ CloseConnections \/ ForceExit))

-------------------------------------------------------------------------------
(* Properties *)

\* No interleaving the handler was not built for: one connection of a client at a time,
\* no refreshed ids, no migration, and no socket that died while its session was loading.
Orderly(c) ==
  /\ deployment.features \cap {"overlap", "refresh", "migrate", "jwks"} = {}
  /\ \A k \in Conns : conn[k].id = c => ~conn[k].interrupted

\* Connections that share an id may refresh it.
SharedRefresh == Has("overlap") /\ Has("refresh")

\* What a sticky reconnection would restore are the rooms the client was in at its latest
\* change: no save, timer or late handler that runs after the teardown replaces it by the
\* emptied membership.
RoomsRemembered ==
  \A c \in Clients :
    /\ Orderly(c) /\ localSessions[c] # NoState
    /\ liveClients[c] # NoConn => conn[liveClients[c]].touched
    => localSessions[c].rooms = lastRooms[c]

\* Once no save of a client is scheduled or under way, the store holds what the cache
\* holds: no change is left out by timers, flushes, teardowns and the shutdown that
\* cancel or overtake each other.
NothingUnsaved ==
  \A c \in Clients :
    /\ Orderly(c) /\ ~Has("rejects")
    /\ localSessions[c] # NoState /\ touched[c]
    /\ pending[c] = NoConn /\ \A i \in 1 .. Len(calls) : calls[i].client # c
    => store[c] = localSessions[c]

\* A blob that a client was given can be resumed for as long as its store exists, which
\* with a shared store is also after a crash or shutdown: it went out only after its save
\* was answered, and under its owner's id.  A store in memory ends with its process, and
\* with it what it was good for.  (A refreshed id is not taken over by a state that is
\* frozen or being saved.)
HandedIsResumable ==
  ~Has("refresh") => \A state \in handed : store[state.clientId] # NoState

\* liveClients, which migrations, shutdowns and fence events go through, is exact: a live
\* context belongs to its id and its socket has not closed (but during its resumption),
\* and the newest connection of an id is live while it is connected, whatever older ones
\* of the id do.  (A refresh to an id that another connection has is last come, last
\* served.)
LiveIsConnected ==
  ~Has("jwks") /\ ~SharedRefresh =>
    /\ \A c \in Clients : liveClients[c] # NoConn =>
         /\ conn[liveClients[c]].id = c
         /\ liveClients[c] \in Connected \/ conn[liveClients[c]].interrupted
    /\ \A k \in Connected :
         /\ conn[k].id # NoClient
         /\ Has("overlap") => \A j \in Conns : j > k => conn[j].id # conn[k].id
         => liveClients[conn[k].id] = k

\* A room keeps a socket that has closed only if it closed during its resumption.  (A
\* refresh by one of two connections of an id moves the other's rooms along.)
TornDown ==
  ~Has("jwks") /\ ~SharedRefresh =>
    \A c \in Clients, r \in Rooms :
      member[c][r] # NoConn => member[c][r] \in Connected \/ conn[member[c][r]].interrupted

\* A signal ends the process, whatever clients do and even if the store never answers.
ShutdownTerminates == stage = "stopping" ~> stage = "exited"
===============================================================================

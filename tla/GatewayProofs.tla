----------------------------- MODULE GatewayProofs -----------------------------
(***************************************************************************)
(* Proofs about Gateway, for any clients, rooms, connections and           *)
(* deployments: which connection is live for an id, which sockets rooms    *)
(* hold, that a blob handed out can be resumed, and that the cache and the *)
(* store keep the rooms of a client.                                       *)
(***************************************************************************)
EXTENDS Gateway, FiniteSetTheorems, SequenceTheorems, WellFoundedInduction, TLAPS

-------------------------------------------------------------------------------
(* Types *)

Ids == Clients \cup {NoClient}
MaybeConn == Conns \cup {NoConn}
MaybeState == State \cup {NoState}

Inboxes ==
  {NoFrame} \cup [type : {"join", "leave"}, room : Rooms] \cup [type : {"ack", "location"}]
    \cup [type : {"refresh"}, to : Clients]

Ctx ==
  [step : {"none", "auth", "failed", "load", "ready", "gone"},
   sock : {"none", "open", "closing", "closed"},
   token : Ids, blob : MaybeState, cookie : BOOLEAN, id : Ids, frozen : MaybeState,
   inbox : Inboxes, awaits : Ids, verifies : Ids, touched : BOOLEAN, interrupted : BOOLEAN]

Calls ==
  [client : Clients, state : State, by : {"flush", "migrate_flush", "migrate", "all_flush", "all"},
   conn : MaybeConn]

\* The clients with a debounced save.
Pending(p) == {c \in Clients : p[c] # NoConn}

TypeOK ==
  /\ deployment \in Deployments
  /\ conn \in [Conns -> Ctx]
  /\ member \in [Clients -> [Rooms -> MaybeConn]]
  /\ liveClients \in [Clients -> MaybeConn]
  /\ localSessions \in [Clients -> MaybeState]
  /\ pending \in [Clients -> MaybeConn] /\ IsFiniteSet(Pending(pending))
  /\ calls \in Seq(Calls)
  /\ store \in [Clients -> MaybeState]
  /\ handed \in SUBSET State
  /\ saving \in [visited : SUBSET Clients, blobs : [Clients -> MaybeState]]

\* A context that is past its authentication has an id, one that loads has a blob.
CtxNamed(x) ==
  /\ x.step \in {"load", "ready"} \/ x.awaits # NoClient \/ x.verifies # NoClient => x.id # NoClient
  /\ x.step = "auth" => x.token # NoClient /\ x.id = NoClient
  /\ x.step = "load" => x.blob # NoState

\* So has every context that a save will capture, and a live one has the id it is live for.
PendingNamed(p, contexts) == \A c \in Clients : p[c] # NoConn => contexts[p[c]].id # NoClient
LiveNamed(live, contexts) == \A c \in Clients : live[c] # NoConn => contexts[live[c]].id = c
CallsNamed(queue, contexts) ==
  \A i \in 1 .. Len(queue) : queue[i].by \in {"migrate_flush", "migrate"} =>
    queue[i].conn # NoConn /\ contexts[queue[i].conn].id # NoClient

Named ==
  /\ \A k \in Conns : CtxNamed(conn[k])
  /\ PendingNamed(pending, conn)
  /\ LiveNamed(liveClients, conn)
  /\ CallsNamed(calls, conn)

-------------------------------------------------------------------------------
(* Who is connected *)

\* The socket is still open or closing, or it closed while its session was loading.
Excused(x) == x.sock \in {"open", "closing"} \/ x.interrupted

\* Without fetches of keys, what a handler still has to do it does for a socket that is
\* connected or excused.
CtxPrompt(x) ==
  /\ x.step = "auth" => x.sock \in {"open", "closing"}
  /\ x.step = "load" \/ x.verifies # NoClient \/ x.inbox # NoFrame => Excused(x)
  /\ x.inbox # NoFrame => x.step \in {"load", "ready"}
  /\ x.verifies # NoClient => x.step = "ready"
  /\ x.verifies # NoClient \/ x.inbox.type = "refresh" => Has("refresh")
  /\ x.token # NoClient => x.step \in {"auth", "failed"}

\* Connections come in the order of their numbers, and an authentication under way is
\* the newest one's.
InOrder ==
  \A j, k \in Conns : j < k /\ conn[k] # NoSocket => conn[j] # NoSocket /\ conn[j].step # "auth"

\* Over and Uses, of a context.
IsOver(x) ==
  /\ x.sock \notin {"open", "closing"} /\ x.step \notin {"auth", "load"}
  /\ x.awaits = NoClient /\ x.verifies = NoClient /\ x.inbox = NoFrame

Used(c, x) ==
  c = x.token \/ c = x.id \/ c = x.verifies \/ (x.inbox.type = "refresh" /\ c = x.inbox.to)

\* Connections that do not overlap share no id unless one of them is over.
Exclusive ==
  ~Has("overlap") =>
    \A c \in Clients, j, k \in Conns :
      j # k /\ Used(c, conn[j]) /\ Used(c, conn[k]) => IsOver(conn[j]) \/ IsOver(conn[k])

LiveExcused == \A c \in Clients : liveClients[c] # NoConn => Excused(conn[liveClients[c]])

NewestLive ==
  \A k \in Connected :
    /\ conn[k].id # NoClient
    /\ Has("overlap") => \A j \in Conns : j > k => conn[j].id # conn[k].id
    => liveClients[conn[k].id] = k

\* A room holds a socket under the id of its context, or the socket is an excused one.
MembersNamed ==
  \A c \in Clients, r \in Rooms :
    LET k == member[c][r]
    IN  k # NoConn => Excused(conn[k]) /\ (k \in Connected => conn[k].id = c)

Ordinary == ~Has("jwks") /\ ~SharedRefresh

Prompt ==
  Ordinary =>
    /\ \A k \in Conns : CtxPrompt(conn[k])
    /\ InOrder
    /\ Exclusive
    /\ LiveExcused
    /\ NewestLive
    /\ MembersNamed

-------------------------------------------------------------------------------
(* What is handed out *)

FrozenNamed(contexts) ==
  \A k \in Conns : contexts[k].frozen # NoState => contexts[k].frozen.clientId = contexts[k].id

CallsOwned(queue, contexts) ==
  \A i \in 1 .. Len(queue) :
    /\ queue[i].by \in {"migrate_flush", "migrate"} => contexts[queue[i].conn].id = queue[i].client
    /\ queue[i].by \in {"migrate", "all"} => queue[i].state.clientId = queue[i].client

BlobsStored(blobs, saved) ==
  \A c \in Clients : blobs[c] # NoState => blobs[c].clientId = c /\ saved[c] # NoState

HandedStored(given, saved) == \A state \in given : saved[state.clientId] # NoState

\* Without refreshes a state that is frozen, saved or handed out is its client's own.
Handable ==
  ~Has("refresh") =>
    /\ \A k \in Conns : conn[k].verifies = NoClient /\ conn[k].inbox.type # "refresh"
    /\ FrozenNamed(conn)
    /\ CallsOwned(calls, conn)
    /\ BlobsStored(saving.blobs, store)
    /\ HandedStored(handed, store)

-------------------------------------------------------------------------------
(* Contexts *)

LEMMA SomeConn ==
  ASSUME NEW f \in [Clients -> MaybeConn], NEW c \in Clients, f[c] # NoConn
  PROVE  f[c] \in Conns
BY DEF MaybeConn

LEMMA CaptureType ==
  ASSUME NEW x \in Ctx, x.id # NoClient, NEW m
  PROVE  CaptureState(x, m) \in State
<1>1. x.id \in Clients /\ x.frozen \in MaybeState
  BY DEF Ctx, Ids
<1>2. [clientId |-> x.id, rooms |-> RoomsIn(m, x.id)] \in State
  BY <1>1 DEF State, RoomsIn
<1>3. QED
  BY <1>1, <1>2 DEF CaptureState, MaybeState

\* Contexts that differ in nothing the handlers go by.
Same(y, x) ==
  /\ y.step = x.step /\ y.sock = x.sock /\ y.token = x.token /\ y.id = x.id
  /\ y.blob = x.blob /\ y.frozen = x.frozen /\ y.inbox = x.inbox
  /\ y.awaits = x.awaits /\ y.verifies = x.verifies /\ y.interrupted = x.interrupted

\* A step that changes one context at most.
Only(k) == conn' \in [Conns -> Ctx] /\ \A j \in Conns : j # k => conn'[j] = conn[j]

LEMMA Touched ==
  ASSUME NEW x \in Ctx
  PROVE  [x EXCEPT !.touched = TRUE] \in Ctx /\ Same([x EXCEPT !.touched = TRUE], x)
BY DEF Ctx, Same

LEMMA ClosedSocket ==
  ASSUME NEW x \in Ctx
  PROVE  LET y == CloseSocket(x)
         IN  /\ y \in Ctx
             /\ y.step = x.step /\ y.token = x.token /\ y.id = x.id
             /\ y.blob = x.blob /\ y.frozen = x.frozen /\ y.inbox = x.inbox
             /\ y.awaits = x.awaits /\ y.verifies = x.verifies /\ y.interrupted = x.interrupted
             /\ y.sock \in {"open", "closing"} <=> x.sock \in {"open", "closing"}
             /\ y = NoSocket <=> x = NoSocket
<1>1. CASE x.sock = "open"
  <2>1. CloseSocket(x) = [x EXCEPT !.sock = "closing"]
    BY <1>1 DEF CloseSocket
  <2>2. x # NoSocket /\ CloseSocket(x).sock = "closing"
    BY <1>1, <2>1 DEF NoSocket, Ctx
  <2>3. CloseSocket(x) # NoSocket
    BY <2>2 DEF NoSocket
  <2>4. QED
    BY <1>1, <2>1, <2>2, <2>3 DEF Ctx
<1>2. CASE x.sock # "open"
  BY <1>2 DEF CloseSocket
<1>3. QED
  BY <1>1, <1>2

LEMMA NoSocketType ==
  /\ NoSocket \in Ctx
  /\ NoSocket.step = "none" /\ NoSocket.sock = "none" /\ NoSocket.token = NoClient
  /\ NoSocket.id = NoClient /\ NoSocket.verifies = NoClient /\ NoSocket.awaits = NoClient
  /\ NoSocket.inbox = NoFrame /\ NoSocket.frozen = NoState /\ NoSocket.blob = NoState
  /\ NoSocket.interrupted = FALSE
<1>1. NoSocket \in Ctx
  BY DEF NoSocket, Ctx, Ids, MaybeState, Inboxes
<1>2. QED
  BY <1>1 DEF NoSocket

LEMMA PendingFinite ==
  ASSUME NEW p \in [Clients -> MaybeConn], IsFiniteSet(Pending(p)), NEW c \in Clients, NEW k \in MaybeConn
  PROVE  /\ [p EXCEPT ![c] = k] \in [Clients -> MaybeConn]
         /\ IsFiniteSet(Pending([p EXCEPT ![c] = k]))
<1>1. IsFiniteSet(Pending(p) \cup {c})
  BY FS_AddElement
<1>2. Pending([p EXCEPT ![c] = k]) \subseteq Pending(p) \cup {c}
  BY DEF Pending
<1>3. IsFiniteSet(Pending([p EXCEPT ![c] = k]))
  BY <1>1, <1>2, FS_Subset
<1>4. QED
  BY <1>3

\* touchSession(), in types.
LEMMA TouchType ==
  ASSUME TypeOK, NEW k \in Conns, NEW x \in Ctx, x.id # NoClient, NEW m, TouchSession(k, x, m)
  PROVE  /\ Only(k) /\ Same(conn'[k], x)
         /\ localSessions' \in [Clients -> MaybeState]
         /\ pending' \in [Clients -> MaybeConn] /\ IsFiniteSet(Pending(pending'))
         /\ x.id \in Clients /\ pending' = [pending EXCEPT ![x.id] = k]
<1> DEFINE y == [x EXCEPT !.touched = TRUE]
<1>1. x.id \in Clients /\ CaptureState(x, m) \in State
  BY CaptureType DEF Ctx, Ids
<1>2. y \in Ctx /\ Same(y, x)
  BY Touched
<1>3. conn' = [conn EXCEPT ![k] = y] /\ pending' = [pending EXCEPT ![x.id] = k]
  BY DEF TouchSession
<1> HIDE DEF y
<1>4. Only(k) /\ conn'[k] = y
  BY <1>2, <1>3 DEF Only, TypeOK
<1>5. k \in MaybeConn
  BY DEF MaybeConn
<1>6. pending' \in [Clients -> MaybeConn] /\ IsFiniteSet(Pending(pending'))
  BY <1>1, <1>3, <1>5, PendingFinite DEF TypeOK
<1>7. localSessions' \in [Clients -> MaybeState]
  BY <1>1 DEF TouchSession, TypeOK, MaybeState
<1>8. QED
  BY <1>1, <1>2, <1>3, <1>4, <1>6, <1>7

-------------------------------------------------------------------------------
(* Types and names *)

\* What a change of one context leaves of Named.
LEMMA OneContext ==
  ASSUME TypeOK, Named, NEW k \in Conns, Only(k), CtxNamed(conn'[k]),
         conn[k].id # NoClient => conn'[k].id # NoClient
  PROVE  /\ \A j \in Conns : CtxNamed(conn'[j])
         /\ PendingNamed(pending, conn')
         /\ CallsNamed(calls, conn')
         /\ conn'[k].id = conn[k].id => LiveNamed(liveClients, conn')
<1>1. \A j \in Conns : conn[j].id # NoClient => conn'[j].id # NoClient
  BY DEF Only
<1>2. \A j \in Conns : CtxNamed(conn'[j])
  BY DEF Only, Named
<1>3. PendingNamed(pending, conn')
  BY <1>1, SomeConn DEF Named, PendingNamed, TypeOK
<1>4. CallsNamed(calls, conn')
  <2> SUFFICES ASSUME NEW i \in 1 .. Len(calls), calls[i].by \in {"migrate_flush", "migrate"}
               PROVE  calls[i].conn # NoConn /\ conn'[calls[i].conn].id # NoClient
    BY DEF CallsNamed
  <2>1. calls[i] \in Calls
    BY DEF TypeOK
  <2>2. calls[i].conn # NoConn /\ conn[calls[i].conn].id # NoClient
    BY DEF Named, CallsNamed
  <2>3. calls[i].conn \in Conns
    BY <2>1, <2>2 DEF Calls, MaybeConn
  <2>4. QED
    BY <1>1, <2>2, <2>3
<1>5. ASSUME conn'[k].id = conn[k].id
      PROVE  LiveNamed(liveClients, conn')
  <2>1. \A j \in Conns : conn'[j].id = conn[j].id
    BY <1>5 DEF Only
  <2>2. QED
    BY <2>1, SomeConn DEF Named, LiveNamed, TypeOK
<1>6. QED
  BY <1>2, <1>3, <1>4, <1>5

Ok == TypeOK /\ Named

others == <<deployment, member, liveClients, sessionVars>>

\* A context changes and keeps its id; the rest stays as it is.
LEMMA OnlyOk ==
  ASSUME Ok, NEW k \in Conns, Only(k), CtxNamed(conn'[k]), conn'[k].id = conn[k].id, UNCHANGED others
  PROVE  Ok'
<1>1. TypeOK'
  BY DEF Ok, TypeOK, Only, others, sessionVars
<1>2. Named'
  BY OneContext DEF Ok, Named, others, sessionVars
<1>3. QED
  BY <1>1, <1>2 DEF Ok

\* A context changes and keeps its id, and the session is touched.
LEMMA TouchOk ==
  ASSUME Ok, NEW k \in Conns, NEW x \in Ctx, CtxNamed(x), x.id # NoClient, x.id = conn[k].id,
         NEW m, TouchSession(k, x, m),
         member' \in [Clients -> [Rooms -> MaybeConn]],
         UNCHANGED <<deployment, liveClients, calls, store, handed, saving>>
  PROVE  Ok' /\ Only(k) /\ Same(conn'[k], x)
<1>1. /\ Only(k) /\ Same(conn'[k], x)
      /\ localSessions' \in [Clients -> MaybeState]
      /\ pending' \in [Clients -> MaybeConn] /\ IsFiniteSet(Pending(pending'))
      /\ x.id \in Clients /\ pending' = [pending EXCEPT ![x.id] = k]
  BY TouchType DEF Ok
<1>2. TypeOK'
  BY <1>1 DEF Ok, TypeOK, Only
<1>3. CtxNamed(conn'[k]) /\ conn'[k].id = conn[k].id
  BY <1>1 DEF Same, CtxNamed
<1>4. /\ \A j \in Conns : CtxNamed(conn'[j])
      /\ PendingNamed(pending, conn') /\ CallsNamed(calls, conn') /\ LiveNamed(liveClients, conn')
  BY <1>1, <1>3, OneContext DEF Ok
<1>5. PendingNamed(pending', conn')
  BY <1>1, <1>3, <1>4 DEF PendingNamed, Ok, TypeOK
<1>6. QED
  BY <1>1, <1>2, <1>4, <1>5 DEF Ok, Named

LEMMA ConnectionOk ==
  ASSUME Ok, NEW k \in Conns, NEW c \in Clients, NEW blob \in MaybeState, NEW cookie \in BOOLEAN,
         Connection(k, c, blob, cookie)
  PROVE  /\ Ok' /\ Only(k)
         /\ conn[k] = NoSocket
         /\ LET y == conn'[k]
            IN  /\ \/ y.step = "auth" /\ y.sock = "open" /\ y.token = c
                   \/ y.step = "failed" /\ y.sock = "closing" /\ y.token = NoClient
                /\ y.id = NoClient /\ y.frozen = NoState /\ y.inbox = NoFrame
                /\ y.awaits = NoClient /\ y.verifies = NoClient /\ y.interrupted = FALSE
<1> DEFINE y == conn'[k]
<1>1. conn[k] = NoSocket /\ conn[k] \in Ctx /\ c # NoClient
  BY GatewayAssumption DEF Connection, Ok, TypeOK
<1>2. conn' = [conn EXCEPT ![k].step = "auth", ![k].sock = "open",
                             ![k].token = c, ![k].blob = blob, ![k].cookie = cookie]
      \/ conn' = [conn EXCEPT ![k].step = "failed", ![k].sock = "closing"]
  BY DEF Connection
<1>3. \A j \in Conns : j # k => conn'[j] = conn[j]
  BY <1>2 DEF Ok, TypeOK
<1>4. CASE conn' = [conn EXCEPT ![k].step = "auth", ![k].sock = "open",
                             ![k].token = c, ![k].blob = blob, ![k].cookie = cookie]
  <2>1. y = [conn[k] EXCEPT !.step = "auth", !.sock = "open", !.token = c, !.blob = blob, !.cookie = cookie]
    BY <1>4 DEF Ok, TypeOK
  <2>2. y \in Ctx
    BY <1>1, <2>1 DEF Ctx, Ids
  <2>3. /\ y.step = "auth" /\ y.sock = "open" /\ y.token = c /\ y.id = NoClient /\ y.frozen = NoState
        /\ y.inbox = NoFrame /\ y.awaits = NoClient /\ y.verifies = NoClient /\ y.interrupted = FALSE
    BY <1>1, <2>1, NoSocketType DEF Ctx
  <2>4. Only(k)
    BY <1>3, <1>4, <2>2 DEF Only, Ok, TypeOK
  <2>5. Ok'
    BY <1>1, <2>3, <2>4, OnlyOk, NoSocketType DEF Connection, others, CtxNamed
  <2>6. QED
    BY <1>1, <2>3, <2>4, <2>5
<1>5. CASE conn' = [conn EXCEPT ![k].step = "failed", ![k].sock = "closing"]
  <2>1. y = [conn[k] EXCEPT !.step = "failed", !.sock = "closing"]
    BY <1>5 DEF Ok, TypeOK
  <2>2. y \in Ctx
    BY <1>1, <2>1 DEF Ctx
  <2>3. /\ y.step = "failed" /\ y.sock = "closing" /\ y.token = NoClient /\ y.id = NoClient /\ y.frozen = NoState
        /\ y.inbox = NoFrame /\ y.awaits = NoClient /\ y.verifies = NoClient /\ y.interrupted = FALSE
    BY <1>1, <2>1, NoSocketType DEF Ctx
  <2>4. Only(k)
    BY <1>3, <1>5, <2>2 DEF Only, Ok, TypeOK
  <2>5. Ok'
    BY <1>1, <2>3, <2>4, OnlyOk, NoSocketType DEF Connection, others, CtxNamed
  <2>6. QED
    BY <1>1, <2>3, <2>4, <2>5
<1>6. QED
  BY <1>2, <1>4, <1>5

LEMMA AuthFailsOk ==
  ASSUME Ok, NEW k \in Conns, AuthFails(k)
  PROVE  /\ Ok' /\ Only(k)
         /\ LET y == conn'[k]  x == conn[k]
            IN  /\ y.step = "failed" /\ (y.sock \in {"open", "closing"} <=> x.sock \in {"open", "closing"})
                /\ y.token = x.token /\ y.id = x.id /\ y.frozen = x.frozen /\ y.inbox = x.inbox
                /\ y.awaits = x.awaits /\ y.verifies = x.verifies /\ y.interrupted = x.interrupted
<1> DEFINE x == conn[k]
           z == CloseSocket(x)
           y == [z EXCEPT !.step = "failed"]
<1>1. x \in Ctx /\ x.step = "auth" /\ CtxNamed(x)
  BY DEF AuthFails, Ok, TypeOK, Named
<1>2. /\ z \in Ctx
      /\ z.step = x.step /\ z.token = x.token /\ z.id = x.id
      /\ z.blob = x.blob /\ z.frozen = x.frozen /\ z.inbox = x.inbox
      /\ z.awaits = x.awaits /\ z.verifies = x.verifies /\ z.interrupted = x.interrupted
      /\ z.sock \in {"open", "closing"} <=> x.sock \in {"open", "closing"}
  BY <1>1, ClosedSocket
<1>3. conn' = [conn EXCEPT ![k] = y]
  BY DEF AuthFails, Ok, TypeOK
<1> HIDE DEF z
<1>4. /\ y \in Ctx /\ y.step = "failed"
      /\ y.token = x.token /\ y.id = x.id
      /\ y.blob = x.blob /\ y.frozen = x.frozen /\ y.inbox = x.inbox
      /\ y.awaits = x.awaits /\ y.verifies = x.verifies /\ y.interrupted = x.interrupted
      /\ y.sock \in {"open", "closing"} <=> x.sock \in {"open", "closing"}
  BY <1>2 DEF Ctx
<1> HIDE DEF y
<1>5. Only(k) /\ conn'[k] = y
  BY <1>3, <1>4 DEF Only, Ok, TypeOK
<1>6. CtxNamed(y)
  BY <1>1, <1>4 DEF CtxNamed
<1>7. Ok'
  BY <1>4, <1>5, <1>6, OnlyOk DEF AuthFails, others
<1>8. QED
  BY <1>4, <1>5, <1>7

\* A context gets an id, and the session is touched.
LEMMA TouchNewOk ==
  ASSUME Ok, NEW k \in Conns, NEW x \in Ctx, CtxNamed(x), x.id # NoClient,
         NEW m, TouchSession(k, x, m),
         member' \in [Clients -> [Rooms -> MaybeConn]],
         liveClients' \in [Clients -> MaybeConn], LiveNamed(liveClients', conn'),
         UNCHANGED <<deployment, calls, store, handed, saving>>
  PROVE  Ok' /\ Only(k) /\ Same(conn'[k], x)
<1>1. /\ Only(k) /\ Same(conn'[k], x)
      /\ localSessions' \in [Clients -> MaybeState]
      /\ pending' \in [Clients -> MaybeConn] /\ IsFiniteSet(Pending(pending'))
      /\ x.id \in Clients /\ pending' = [pending EXCEPT ![x.id] = k]
  BY TouchType DEF Ok
<1>2. TypeOK'
  BY <1>1 DEF Ok, TypeOK, Only
<1>3. CtxNamed(conn'[k]) /\ conn'[k].id # NoClient
  BY <1>1 DEF Same, CtxNamed
<1>4. /\ \A j \in Conns : CtxNamed(conn'[j])
      /\ PendingNamed(pending, conn') /\ CallsNamed(calls, conn')
  BY <1>1, <1>3, OneContext DEF Ok
<1>5. PendingNamed(pending', conn')
  BY <1>1, <1>3, <1>4 DEF PendingNamed, Ok, TypeOK
<1>6. QED
  BY <1>1, <1>2, <1>4, <1>5 DEF Ok, Named

\* A step that puts connection k into rooms of an id at most, or takes sockets out.
Joined(k, c) ==
  \A d \in Clients, r \in Rooms :
    member'[d][r] = member[d][r] \/ member'[d][r] = NoConn \/ (d = c /\ member'[d][r] = k)

LEMMA RestoreJoins ==
  ASSUME TypeOK, NEW k \in Conns, NEW x \in Ctx, x.id # NoClient, NEW s \in State,
         RestoreSession(k, x, s)
  PROVE  /\ member' \in [Clients -> [Rooms -> MaybeConn]] /\ Joined(k, x.id)
         /\ TouchSession(k, x, member')
<1>1. x.id \in Clients /\ k \in MaybeConn
  BY DEF Ctx, Ids, MaybeConn
<1>2. PICK restored \in SUBSET s.rooms :
        member' = [member EXCEPT ![x.id] = [r \in Rooms |-> IF r \in restored THEN k ELSE @[r]]]
  BY DEF RestoreSession
<1>3. member'[x.id] = [r \in Rooms |-> IF r \in restored THEN k ELSE member[x.id][r]]
  BY <1>1, <1>2 DEF TypeOK
<1>4. member'[x.id] \in [Rooms -> MaybeConn]
  BY <1>1, <1>3 DEF TypeOK
<1>5. member' \in [Clients -> [Rooms -> MaybeConn]]
  BY <1>1, <1>2, <1>3, <1>4 DEF TypeOK
<1>6. Joined(k, x.id)
  BY <1>1, <1>2, <1>3 DEF Joined, TypeOK
<1>7. QED
  BY <1>5, <1>6 DEF RestoreSession

LEMMA AuthSucceedsOk ==
  ASSUME Ok, NEW k \in Conns, AuthSucceeds(k)
  PROVE  /\ Ok' /\ Only(k)
         /\ conn[k].step = "auth" /\ conn[k].token \in Clients /\ conn[k].id = NoClient
         /\ liveClients' = [liveClients EXCEPT ![conn[k].token] = k]
         /\ Joined(k, conn[k].token)
         /\ LET y == conn'[k]  x == conn[k]
            IN  /\ y.step \in {"load", "ready"} /\ y.token = NoClient /\ y.id = x.token
                /\ y.sock = x.sock /\ y.frozen = x.frozen /\ y.inbox = x.inbox
                /\ y.awaits = x.awaits /\ y.verifies = x.verifies /\ y.interrupted = x.interrupted
         /\ UNCHANGED <<deployment, calls, store, handed, saving>>
<1> DEFINE x == conn[k]
           c == x.token
           ctx == [x EXCEPT !.id = c, !.step = "ready", !.token = NoClient, !.cookie = FALSE]
           ctl == [ctx EXCEPT !.step = "load"]
<1>1. x \in Ctx /\ x.step = "auth" /\ CtxNamed(x) /\ c \in Clients /\ x.id = NoClient
  BY DEF AuthSucceeds, Ok, TypeOK, Named, CtxNamed, Ctx, Ids
<1>2. /\ ctx \in Ctx /\ ctx.step = "ready" /\ ctx.token = NoClient /\ ctx.id = c
      /\ ctx.sock = x.sock /\ ctx.frozen = x.frozen /\ ctx.inbox = x.inbox /\ ctx.blob = x.blob
      /\ ctx.awaits = x.awaits /\ ctx.verifies = x.verifies /\ ctx.interrupted = x.interrupted
  BY <1>1 DEF Ctx, Ids
<1>3. c # NoClient /\ CtxNamed(ctx)
  BY <1>1, <1>2, GatewayAssumption DEF CtxNamed
<1> HIDE DEF ctx
<1>4. /\ ctl \in Ctx /\ ctl.step = "load" /\ ctl.token = NoClient /\ ctl.id = c
      /\ ctl.sock = x.sock /\ ctl.frozen = x.frozen /\ ctl.inbox = x.inbox /\ ctl.blob = x.blob
      /\ ctl.awaits = x.awaits /\ ctl.verifies = x.verifies /\ ctl.interrupted = x.interrupted
  BY <1>2 DEF Ctx
<1> HIDE DEF ctl
<1>5. liveClients' = [liveClients EXCEPT ![c] = k] /\ liveClients' \in [Clients -> MaybeConn]
  BY <1>1 DEF AuthSucceeds, Ok, TypeOK, MaybeConn
<1>6. ASSUME Only(k), conn'[k].id = c
      PROVE  LiveNamed(liveClients', conn')
  <2> SUFFICES ASSUME NEW d \in Clients, liveClients'[d] # NoConn
               PROVE  conn'[liveClients'[d]].id = d
    BY DEF LiveNamed
  <2>1. CASE d = c
    BY <1>1, <1>5, <1>6, <2>1 DEF Ok, TypeOK
  <2>2. CASE d # c
    <3>1. liveClients'[d] = liveClients[d]
      BY <1>1, <1>5, <2>2 DEF Ok, TypeOK
    <3>2. liveClients[d] \in Conns /\ conn[liveClients[d]].id = d
      BY <3>1, SomeConn DEF Ok, TypeOK, Named, LiveNamed
    <3>3. liveClients[d] # k
      BY <1>1, <3>2, GatewayAssumption
    <3>4. QED
      BY <1>6, <3>1, <3>2, <3>3 DEF Only
  <2>3. QED
    BY <2>1, <2>2
<1>7. CASE x.blob # NoState /\ conn' = [conn EXCEPT ![k] = ctl] /\ UNCHANGED <<member, sessionVars, history>>
  <2>1. Only(k) /\ conn'[k] = ctl
    BY <1>4, <1>7 DEF Only, Ok, TypeOK
  <2>2. CtxNamed(conn'[k])
    BY <1>3, <1>4, <1>7, <2>1 DEF CtxNamed
  <2>3. /\ \A j \in Conns : CtxNamed(conn'[j])
        /\ PendingNamed(pending, conn') /\ CallsNamed(calls, conn')
    BY <1>1, <2>1, <2>2, OneContext DEF Ok
  <2>4. Named'
    BY <1>4, <1>6, <1>7, <2>1, <2>3 DEF Named, sessionVars
  <2>5. deployment' = deployment
    BY DEF AuthSucceeds
  <2>6. TypeOK'
    BY <1>5, <1>7, <2>1, <2>5 DEF TypeOK, Ok, sessionVars, Only
  <2>7. Joined(k, c)
    BY <1>7 DEF Joined
  <2>8. QED
    BY <1>1, <1>4, <1>5, <1>7, <2>1, <2>4, <2>5, <2>6, <2>7 DEF Ok, sessionVars
<1>8. CASE localSessions[c] # NoState /\ RestoreSession(k, ctx, localSessions[c])
  <2>1. localSessions[c] \in State
    BY <1>1, <1>8 DEF Ok, TypeOK, MaybeState
  <2>2. /\ member' \in [Clients -> [Rooms -> MaybeConn]] /\ Joined(k, c)
        /\ TouchSession(k, ctx, member')
    BY <1>2, <1>3, <1>8, <2>1, RestoreJoins DEF Ok
  <2>3. Only(k) /\ Same(conn'[k], ctx)
    BY <1>2, <1>3, <2>2, TouchType DEF Ok
  <2>4. UNCHANGED <<deployment, calls, store, handed, saving>>
    BY <1>8 DEF RestoreSession, AuthSucceeds
  <2>5. conn'[k].id = c
    BY <1>2, <2>3 DEF Same
  <2>6. LiveNamed(liveClients', conn')
    BY <1>6, <2>3, <2>5
  <2>7. Ok'
    BY <1>2, <1>3, <1>5, <2>2, <2>4, <2>6, TouchNewOk
  <2>8. QED
    BY <1>1, <1>2, <1>5, <2>2, <2>3, <2>4, <2>7 DEF Same
<1>9. CASE /\ conn' = [conn EXCEPT ![k] = ctx]
           /\ localSessions' = [localSessions EXCEPT ![c] = IF conn[k].cookie THEN NoState ELSE @]
           /\ UNCHANGED <<member, pending, calls, store, handed, saving, history>>
  <2>1. Only(k) /\ conn'[k] = ctx
    BY <1>2, <1>9 DEF Only, Ok, TypeOK
  <2>2. /\ \A j \in Conns : CtxNamed(conn'[j])
        /\ PendingNamed(pending, conn') /\ CallsNamed(calls, conn')
    BY <1>1, <1>3, <2>1, OneContext DEF Ok
  <2>3. Named'
    BY <1>2, <1>6, <1>9, <2>1, <2>2 DEF Named
  <2>4. deployment' = deployment
    BY DEF AuthSucceeds
  <2>5. localSessions' \in [Clients -> MaybeState]
    BY <1>1, <1>9 DEF Ok, TypeOK, MaybeState
  <2>6. TypeOK'
    BY <1>5, <1>9, <2>1, <2>4, <2>5 DEF TypeOK, Ok, Only
  <2>7. Joined(k, c)
    BY <1>9 DEF Joined
  <2>8. QED
    BY <1>1, <1>2, <1>5, <1>9, <2>1, <2>3, <2>4, <2>6, <2>7 DEF Ok
<1>10. QED
  BY <1>7, <1>8, <1>9 DEF AuthSucceeds, ctx, ctl

LEMMA LoadSettlesOk ==
  ASSUME Ok, NEW k \in Conns, LoadSettles(k)
  PROVE  /\ Ok' /\ Only(k)
         /\ conn[k].step = "load" /\ conn[k].id \in Clients
         /\ Joined(k, conn[k].id)
         /\ LET y == conn'[k]  x == conn[k]
            IN  /\ y.step = "ready" /\ y.token = x.token /\ y.id = x.id
                /\ y.sock = x.sock /\ y.frozen = x.frozen /\ y.inbox = x.inbox
                /\ y.awaits = x.awaits /\ y.verifies = x.verifies /\ y.interrupted = x.interrupted
         /\ UNCHANGED <<deployment, liveClients, calls, store, handed, saving>>
<1> DEFINE x == conn[k]
           ctx == [x EXCEPT !.step = "ready", !.blob = NoState]
<1>1. x \in Ctx /\ x.step = "load" /\ CtxNamed(x) /\ x.id # NoClient /\ x.id \in Clients /\ x.blob \in State
  BY DEF LoadSettles, Ok, TypeOK, Named, CtxNamed, Ctx, Ids, MaybeState
<1>2. /\ ctx \in Ctx /\ ctx.step = "ready" /\ ctx.token = x.token /\ ctx.id = x.id
      /\ ctx.sock = x.sock /\ ctx.frozen = x.frozen /\ ctx.inbox = x.inbox
      /\ ctx.awaits = x.awaits /\ ctx.verifies = x.verifies /\ ctx.interrupted = x.interrupted
  BY <1>1 DEF Ctx, MaybeState
<1>3. CtxNamed(ctx)
  BY <1>1, <1>2 DEF CtxNamed
<1> HIDE DEF ctx
<1>4. CASE RestoreSession(k, ctx, x.blob)
  <2>2. /\ member' \in [Clients -> [Rooms -> MaybeConn]] /\ Joined(k, x.id)
        /\ TouchSession(k, ctx, member')
    BY <1>1, <1>2, <1>4, RestoreJoins DEF Ok
  <2>3. UNCHANGED <<deployment, liveClients, calls, store, handed, saving>>
    BY <1>4 DEF RestoreSession, LoadSettles
  <2>4. Ok' /\ Only(k) /\ Same(conn'[k], ctx)
    BY <1>1, <1>2, <1>3, <2>2, <2>3, TouchOk
  <2>5. QED
    BY <1>1, <1>2, <2>2, <2>3, <2>4 DEF Same
<1>5. CASE conn' = [conn EXCEPT ![k] = ctx] /\ UNCHANGED <<member, sessionVars, history>>
  <2>1. Only(k) /\ conn'[k] = ctx
    BY <1>2, <1>5 DEF Only, Ok, TypeOK
  <2>2. UNCHANGED others
    BY <1>5 DEF LoadSettles, others
  <2>3. Ok'
    BY <1>2, <1>3, <2>1, <2>2, OnlyOk
  <2>4. Joined(k, x.id)
    BY <1>5 DEF Joined
  <2>5. QED
    BY <1>1, <1>2, <2>1, <2>2, <2>3, <2>4 DEF others, sessionVars
<1>6. QED
  BY <1>4, <1>5 DEF LoadSettles, ctx

LEMMA FrameTypes ==
  ASSUME TypeOK, NEW f \in Frames
  PROVE  f \in Inboxes /\ f # NoFrame
<1>1. deployment.clients \subseteq Clients
  BY GatewayAssumption DEF TypeOK
<1>2. f \in Inboxes
  BY <1>1 DEF Frames, Inboxes
<1>3. f.type # "none"
  BY DEF Frames
<1>4. QED
  BY <1>2, <1>3 DEF NoFrame

LEMMA FrameWaitsOk ==
  ASSUME Ok, NEW k \in Conns, NEW f \in Frames, FrameWaits(k, f)
  PROVE  /\ Ok' /\ Only(k)
         /\ conn[k].step = "load"
         /\ LET y == conn'[k]  x == conn[k]
            IN  /\ y.inbox = f /\ y.step = "load" /\ y.token = x.token /\ y.id = x.id
                /\ y.sock = x.sock /\ y.frozen = x.frozen
                /\ y.awaits = x.awaits /\ y.verifies = x.verifies /\ y.interrupted = x.interrupted
<1> DEFINE x == conn[k]
           y == [x EXCEPT !.inbox = f]
<1>1. x \in Ctx /\ x.step = "load" /\ CtxNamed(x) /\ f \in Inboxes
  BY FrameTypes DEF FrameWaits, Ok, TypeOK, Named
<1>2. /\ y \in Ctx /\ y.step = x.step /\ y.token = x.token /\ y.id = x.id /\ y.blob = x.blob
      /\ y.sock = x.sock /\ y.frozen = x.frozen /\ y.inbox = f
      /\ y.awaits = x.awaits /\ y.verifies = x.verifies /\ y.interrupted = x.interrupted
  BY <1>1 DEF Ctx
<1>3. conn' = [conn EXCEPT ![k] = y]
  BY DEF FrameWaits, Ok, TypeOK
<1> HIDE DEF y
<1>4. CtxNamed(y)
  BY <1>1, <1>2 DEF CtxNamed
<1>5. Only(k) /\ conn'[k] = y
  BY <1>2, <1>3 DEF Only, Ok, TypeOK
<1>6. Ok'
  BY <1>2, <1>4, <1>5, OnlyOk DEF FrameWaits, others
<1>7. QED
  BY <1>1, <1>2, <1>5, <1>6

LEMMA DispatchOk ==
  ASSUME Ok, NEW k \in Conns, NEW x \in Ctx, CtxNamed(x), x.id # NoClient, x.id = conn[k].id,
         NEW f \in Inboxes, Dispatch(k, x, f),
         UNCHANGED <<deployment, liveClients, calls, store, handed, saving>>
  PROVE  /\ Ok' /\ Only(k) /\ Joined(k, x.id)
         /\ LET y == conn'[k]
            IN  /\ y.step = x.step /\ y.sock = x.sock /\ y.token = x.token /\ y.id = x.id
                /\ y.frozen = x.frozen /\ y.inbox = x.inbox /\ y.interrupted = x.interrupted
                /\ y.verifies = x.verifies \/ (f.type = "refresh" /\ y.verifies = f.to)
<1>1. x.id \in Clients /\ k \in MaybeConn
  BY DEF Ctx, Ids, MaybeConn
<1>2. ASSUME f.type \in {"join", "leave"}, NEW v \in MaybeConn, v = k \/ v = NoConn,
             member' = [member EXCEPT ![x.id][f.room] = v]
      PROVE  member' \in [Clients -> [Rooms -> MaybeConn]] /\ Joined(k, x.id)
  <2>1. f.room \in Rooms
    BY <1>2 DEF Inboxes, NoFrame
  <2>2. member'[x.id] = [member[x.id] EXCEPT ![f.room] = v] /\ \A d \in Clients : d # x.id => member'[d] = member[d]
    BY <1>1, <1>2 DEF Ok, TypeOK
  <2>3. member[x.id] \in [Rooms -> MaybeConn]
    BY <1>1 DEF Ok, TypeOK
  <2>4. member'[x.id] \in [Rooms -> MaybeConn] /\ \A r \in Rooms : member'[x.id][r] = member[x.id][r] \/ member'[x.id][r] = v
    BY <1>2, <2>1, <2>2, <2>3
  <2>5. member' \in [Clients -> [Rooms -> MaybeConn]]
    BY <1>1, <1>2, <2>4 DEF Ok, TypeOK
  <2>6. Joined(k, x.id)
    BY <1>2, <2>2, <2>4 DEF Joined
  <2>7. QED
    BY <2>5, <2>6
<1>3. ASSUME NEW m, TouchSession(k, x, m), member' \in [Clients -> [Rooms -> MaybeConn]], Joined(k, x.id)
      PROVE  /\ Ok' /\ Only(k) /\ Joined(k, x.id)
             /\ LET y == conn'[k]
                IN  /\ y.step = x.step /\ y.sock = x.sock /\ y.token = x.token /\ y.id = x.id
                    /\ y.frozen = x.frozen /\ y.inbox = x.inbox /\ y.interrupted = x.interrupted
                    /\ y.verifies = x.verifies
  <2>1. Ok' /\ Only(k) /\ Same(conn'[k], x)
    BY <1>3, TouchOk
  <2>2. QED
    BY <1>3, <2>1 DEF Same
<1>4. ASSUME NEW y \in Ctx, conn' = [conn EXCEPT ![k] = y], y.id = x.id, CtxNamed(y),
             UNCHANGED <<member, localSessions, pending, history>>
      PROVE  Ok' /\ Only(k) /\ Joined(k, x.id) /\ conn'[k] = y
  <2>1. Only(k) /\ conn'[k] = y
    BY <1>4 DEF Only, Ok, TypeOK
  <2>2. Ok'
    BY <1>4, <2>1, OnlyOk DEF others, sessionVars
  <2>3. QED
    BY <1>4, <2>1, <2>2 DEF Joined
<1>5. CASE f.type = "join"
  <2>1. CASE member' = [member EXCEPT ![x.id][f.room] = k] /\ TouchSession(k, x, member')
    BY <1>1, <1>2, <1>3, <1>5, <2>1
  <2>2. CASE conn' = [conn EXCEPT ![k] = x] /\ UNCHANGED <<member, localSessions, pending, history>>
    BY <1>4, <2>2
  <2>3. QED
    BY <1>5, <2>1, <2>2 DEF Dispatch
<1>6. CASE f.type = "leave"
  <2>1. member' = [member EXCEPT ![x.id][f.room] = NoConn] /\ TouchSession(k, x, member')
    BY <1>6 DEF Dispatch
  <2>2. NoConn \in MaybeConn
    BY DEF MaybeConn
  <2>3. QED
    BY <1>2, <1>3, <1>6, <2>1, <2>2
<1>7. CASE f.type = "ack"
  <2>1. TouchSession(k, x, member) /\ member' = member
    BY <1>7 DEF Dispatch
  <2>2. member' \in [Clients -> [Rooms -> MaybeConn]] /\ Joined(k, x.id)
    BY <2>1 DEF Joined, Ok, TypeOK
  <2>3. QED
    BY <1>3, <2>1, <2>2
<1>8. CASE f.type = "location"
  <2> DEFINE y == [x EXCEPT !.awaits = x.id]
  <2>1. conn' = [conn EXCEPT ![k] = y] /\ UNCHANGED <<member, localSessions, pending, history>>
    BY <1>8 DEF Dispatch
  <2>2. /\ y \in Ctx /\ y.step = x.step /\ y.sock = x.sock /\ y.token = x.token /\ y.id = x.id /\ y.blob = x.blob
        /\ y.frozen = x.frozen /\ y.inbox = x.inbox /\ y.interrupted = x.interrupted
        /\ y.verifies = x.verifies
    BY DEF Ctx
  <2> HIDE DEF y
  <2>3. CtxNamed(y)
    BY <2>2 DEF CtxNamed
  <2>4. QED
    BY <1>4, <2>1, <2>2, <2>3
<1>9. CASE f.type = "refresh"
  <2> DEFINE y == [x EXCEPT !.verifies = f.to]
  <2>1. conn' = [conn EXCEPT ![k] = y] /\ UNCHANGED <<member, localSessions, pending, history>>
    BY <1>9 DEF Dispatch
  <2>2. f.to \in Clients
    BY <1>9 DEF Inboxes, NoFrame
  <2>3. /\ y \in Ctx /\ y.step = x.step /\ y.sock = x.sock /\ y.token = x.token /\ y.id = x.id /\ y.blob = x.blob
        /\ y.frozen = x.frozen /\ y.inbox = x.inbox /\ y.interrupted = x.interrupted
        /\ y.verifies = f.to
    BY <2>2 DEF Ctx, Ids
  <2> HIDE DEF y
  <2>4. CtxNamed(y)
    BY <2>3 DEF CtxNamed
  <2>5. QED
    BY <1>4, <1>9, <2>1, <2>3, <2>4
<1>10. QED
  BY <1>5, <1>6, <1>7, <1>8, <1>9 DEF Dispatch

LEMMA HandleFrameOk ==
  ASSUME Ok, NEW k \in Conns, NEW f \in Frames, HandleFrame(k, f)
  PROVE  /\ Ok' /\ Only(k) /\ conn[k].id \in Clients /\ Joined(k, conn[k].id)
         /\ LET y == conn'[k]  x == conn[k]
            IN  /\ y.step = x.step /\ y.sock = x.sock /\ y.token = x.token /\ y.id = x.id
                /\ y.frozen = x.frozen /\ y.inbox = x.inbox /\ y.interrupted = x.interrupted
                /\ y.verifies = x.verifies \/ (f.type = "refresh" /\ y.verifies = f.to)
<1>1. f \in Inboxes
  BY FrameTypes DEF Ok
<1>2. conn[k] \in Ctx /\ CtxNamed(conn[k]) /\ conn[k].step = "ready"
  BY DEF Ok, TypeOK, Named, HandleFrame
<1>3. conn[k].id # NoClient /\ conn[k].id \in Clients
  BY <1>2 DEF CtxNamed, Ctx, Ids
<1>4. Dispatch(k, conn[k], f) /\ UNCHANGED <<deployment, liveClients, calls, store, handed, saving>>
  BY DEF HandleFrame
<1>5. QED
  BY <1>1, <1>2, <1>3, <1>4, DispatchOk

LEMMA HandleWaitingOk ==
  ASSUME Ok, NEW k \in Conns, HandleWaiting(k)
  PROVE  /\ Ok' /\ Only(k) /\ conn[k].id \in Clients /\ Joined(k, conn[k].id)
         /\ LET y == conn'[k]  x == conn[k]
            IN  /\ y.step = x.step /\ y.sock = x.sock /\ y.token = x.token /\ y.id = x.id
                /\ y.frozen = x.frozen /\ y.inbox = NoFrame /\ y.interrupted = x.interrupted
                /\ y.verifies = x.verifies \/ (x.inbox.type = "refresh" /\ y.verifies = x.inbox.to)
<1> DEFINE x == conn[k]
           z == [x EXCEPT !.inbox = NoFrame]
<1>1. x \in Ctx /\ CtxNamed(x) /\ x.step = "ready"
  BY DEF Ok, TypeOK, Named, HandleWaiting
<1>2. x.id # NoClient /\ x.id \in Clients /\ x.inbox \in Inboxes
  BY <1>1 DEF CtxNamed, Ctx, Ids
<1>3. /\ z \in Ctx /\ z.step = x.step /\ z.sock = x.sock /\ z.token = x.token /\ z.id = x.id /\ z.blob = x.blob
      /\ z.frozen = x.frozen /\ z.inbox = NoFrame /\ z.interrupted = x.interrupted
      /\ z.verifies = x.verifies /\ z.awaits = x.awaits
  BY <1>1 DEF Ctx, Inboxes
<1>4. Dispatch(k, z, x.inbox) /\ UNCHANGED <<deployment, liveClients, calls, store, handed, saving>>
  BY DEF HandleWaiting
<1> HIDE DEF z
<1>5. CtxNamed(z)
  BY <1>1, <1>3 DEF CtxNamed
<1>6. /\ Ok' /\ Only(k) /\ Joined(k, z.id)
      /\ LET y == conn'[k]
         IN  /\ y.step = z.step /\ y.sock = z.sock /\ y.token = z.token /\ y.id = z.id
             /\ y.frozen = z.frozen /\ y.inbox = z.inbox /\ y.interrupted = z.interrupted
             /\ y.verifies = z.verifies \/ (x.inbox.type = "refresh" /\ y.verifies = x.inbox.to)
  BY <1>2, <1>3, <1>4, <1>5, DispatchOk
<1>7. QED
  BY <1>2, <1>3, <1>6

LEMMA FenceCrossedOk ==
  ASSUME Ok, NEW c \in Clients, FenceCrossed(c)
  PROVE  /\ Ok' /\ liveClients[c] \in Conns
         /\ Only(liveClients[c]) /\ Same(conn'[liveClients[c]], conn[liveClients[c]])
<1> DEFINE k == liveClients[c]
<1>1. k \in Conns /\ conn[k].id = c
  BY SomeConn DEF FenceCrossed, Ok, TypeOK, Named, LiveNamed
<1>2. conn[k] \in Ctx /\ CtxNamed(conn[k]) /\ conn[k].id # NoClient
  BY <1>1, GatewayAssumption DEF Ok, TypeOK, Named
<1>3. /\ TouchSession(k, conn[k], member)
      /\ UNCHANGED <<deployment, member, liveClients, calls, store, handed, saving>>
  BY DEF FenceCrossed
<1>4. member' \in [Clients -> [Rooms -> MaybeConn]]
  BY <1>3 DEF Ok, TypeOK
<1> HIDE DEF k
<1>5. Ok' /\ Only(k) /\ Same(conn'[k], conn[k])
  BY <1>1, <1>2, <1>3, <1>4, TouchOk
<1>6. QED
  BY <1>1, <1>5 DEF k

LEMMA LocationSettlesOk ==
  ASSUME Ok, NEW k \in Conns, LocationSettles(k)
  PROVE  /\ Ok' /\ Only(k)
         /\ LET y == conn'[k]  x == conn[k]
            IN  /\ y.step = x.step /\ y.sock = x.sock /\ y.token = x.token /\ y.id = x.id
                /\ y.frozen = x.frozen /\ y.inbox = x.inbox /\ y.interrupted = x.interrupted
                /\ y.verifies = x.verifies /\ y.awaits = NoClient
<1> DEFINE x == conn[k]
           z == [x EXCEPT !.awaits = NoClient]
<1>1. x \in Ctx /\ CtxNamed(x) /\ x.awaits # NoClient
  BY DEF Ok, TypeOK, Named, LocationSettles
<1>2. x.id # NoClient
  BY <1>1 DEF CtxNamed
<1>3. /\ z \in Ctx /\ z.step = x.step /\ z.sock = x.sock /\ z.token = x.token /\ z.id = x.id /\ z.blob = x.blob
      /\ z.frozen = x.frozen /\ z.inbox = x.inbox /\ z.interrupted = x.interrupted
      /\ z.verifies = x.verifies /\ z.awaits = NoClient
  BY <1>1 DEF Ctx, Ids
<1>4. TouchSession(k, z, member) /\ UNCHANGED <<deployment, member, liveClients, calls, store, handed, saving>>
  BY DEF LocationSettles
<1> HIDE DEF z
<1>5. CtxNamed(z)
  BY <1>1, <1>2, <1>3 DEF CtxNamed
<1>6. member' \in [Clients -> [Rooms -> MaybeConn]]
  BY <1>4 DEF Ok, TypeOK
<1>7. Ok' /\ Only(k) /\ Same(conn'[k], z)
  BY <1>2, <1>3, <1>4, <1>5, <1>6, TouchOk
<1>8. QED
  BY <1>3, <1>7 DEF Same

LEMMA RefreshSettlesOk ==
  ASSUME Ok, NEW k \in Conns, RefreshSettles(k)
  PROVE  /\ Ok' /\ Only(k)
         /\ conn[k].id \in Clients /\ conn[k].verifies \in Clients
         /\ LET y == conn'[k]  x == conn[k]
            IN  /\ y.step = x.step /\ y.sock = x.sock /\ y.token = x.token
                /\ y.frozen = x.frozen /\ y.inbox = x.inbox /\ y.interrupted = x.interrupted
                /\ y.verifies = NoClient /\ y.awaits = x.awaits
                /\ \/ y.id = x.id /\ UNCHANGED <<member, liveClients>>
                   \/ /\ x.id # x.verifies /\ y.id = x.verifies
                      /\ member' = MembersMoved(x.id, x.verifies)
                      /\ liveClients' = [liveClients EXCEPT ![x.verifies] = k, ![x.id] = LiveWithout(x.id, k)]
         /\ UNCHANGED <<deployment, calls, store, handed, saving>>
<1> DEFINE x == conn[k]
           old == x.id
           new == x.verifies
           ctx == [x EXCEPT !.verifies = NoClient]
           nxt == [ctx EXCEPT !.id = new]
<1>1. x \in Ctx /\ CtxNamed(x) /\ new # NoClient
  BY DEF Ok, TypeOK, Named, RefreshSettles
<1>2. old # NoClient /\ old \in Clients /\ new \in Clients
  BY <1>1 DEF CtxNamed, Ctx, Ids
<1>3. /\ ctx \in Ctx /\ ctx.step = x.step /\ ctx.sock = x.sock /\ ctx.token = x.token /\ ctx.id = x.id
      /\ ctx.blob = x.blob /\ ctx.frozen = x.frozen /\ ctx.inbox = x.inbox /\ ctx.interrupted = x.interrupted
      /\ ctx.verifies = NoClient /\ ctx.awaits = x.awaits
  BY <1>1 DEF Ctx, Ids
<1> HIDE DEF ctx
<1>4. /\ nxt \in Ctx /\ nxt.step = x.step /\ nxt.sock = x.sock /\ nxt.token = x.token /\ nxt.id = new
      /\ nxt.blob = x.blob /\ nxt.frozen = x.frozen /\ nxt.inbox = x.inbox /\ nxt.interrupted = x.interrupted
      /\ nxt.verifies = NoClient /\ nxt.awaits = x.awaits
  BY <1>2, <1>3 DEF Ctx, Ids
<1> HIDE DEF nxt
<1>5. x.step # "auth"
  BY <1>1, <1>2 DEF CtxNamed
<1>6. CtxNamed(ctx) /\ CtxNamed(nxt)
  BY <1>1, <1>2, <1>3, <1>4, <1>5, GatewayAssumption DEF CtxNamed
<1>7. deployment' = deployment
  BY DEF RefreshSettles
<1>8. CASE conn' = [conn EXCEPT ![k] = ctx] /\ UNCHANGED <<member, liveClients, sessionVars, history>>
  <2>1. Only(k) /\ conn'[k] = ctx
    BY <1>3, <1>8 DEF Only, Ok, TypeOK
  <2>2. Ok'
    BY <1>3, <1>6, <1>7, <1>8, <2>1, OnlyOk DEF others
  <2>3. QED
    BY <1>2, <1>3, <1>7, <1>8, <2>1, <2>2 DEF sessionVars
<1>9. CASE TouchSession(k, ctx, member) /\ UNCHANGED <<member, liveClients, calls, store, handed, saving>>
  <2>1. member' \in [Clients -> [Rooms -> MaybeConn]]
    BY <1>9 DEF Ok, TypeOK
  <2>2. Ok' /\ Only(k) /\ Same(conn'[k], ctx)
    BY <1>2, <1>3, <1>6, <1>7, <1>9, <2>1, TouchOk
  <2>3. QED
    BY <1>2, <1>3, <1>7, <1>9, <2>2 DEF Same
<1>10. CASE /\ old # new
            /\ member' = MembersMoved(old, new)
            /\ liveClients' = [liveClients EXCEPT ![new] = k, ![old] = LiveWithout(old, k)]
            /\ TouchSession(k, nxt, member')
            /\ UNCHANGED <<calls, store, handed, saving>>
  <2>1. Only(k) /\ Same(conn'[k], nxt)
    BY <1>2, <1>4, <1>10, TouchType, GatewayAssumption DEF Ok
  <2>2. member' \in [Clients -> [Rooms -> MaybeConn]]
    <3>1. \A r \in Rooms : member[old][r] \in MaybeConn /\ member[new][r] \in MaybeConn
      BY <1>2 DEF Ok, TypeOK
    <3>2. NoConn \in MaybeConn
      BY DEF MaybeConn
    <3>3. QED
      BY <1>2, <1>10, <3>1, <3>2 DEF Ok, TypeOK, MembersMoved
  <2>3. /\ liveClients' \in [Clients -> MaybeConn]
        /\ liveClients'[new] = k /\ liveClients'[old] = LiveWithout(old, k)
        /\ \A d \in Clients : d # old /\ d # new => liveClients'[d] = liveClients[d]
    BY <1>2, <1>10 DEF Ok, TypeOK, MaybeConn, LiveWithout
  <2>4. LiveNamed(liveClients', conn')
    <3> SUFFICES ASSUME NEW d \in Clients, liveClients'[d] # NoConn
                 PROVE  conn'[liveClients'[d]].id = d
      BY DEF LiveNamed
    <3>1. CASE d = new
      BY <1>4, <2>1, <2>3, <3>1 DEF Same
    <3>2. CASE d # new
      <4>1. liveClients'[d] = liveClients[d]
        BY <2>3, <3>2 DEF LiveWithout
      <4>2. liveClients[d] \in Conns /\ conn[liveClients[d]].id = d
        BY <4>1, SomeConn DEF Ok, TypeOK, Named, LiveNamed
      <4>3. liveClients[d] # k
        BY <2>3, <3>2, <4>1, <4>2 DEF LiveWithout
      <4>4. QED
        BY <2>1, <4>1, <4>2, <4>3 DEF Only
    <3>3. QED
      BY <3>1, <3>2
  <2>5. Ok'
    BY <1>2, <1>4, <1>6, <1>7, <1>10, <2>2, <2>3, <2>4, TouchNewOk, GatewayAssumption
  <2>6. QED
    BY <1>2, <1>4, <1>7, <1>10, <2>1, <2>5 DEF Same
<1>11. QED
  BY <1>8, <1>9, <1>10 DEF RefreshSettles, ctx, nxt

-------------------------------------------------------------------------------
(* Saves on their way *)

LEMMA CallType ==
  ASSUME NEW c \in Clients, NEW s \in State, NEW k \in MaybeConn,
         NEW by \in {"flush", "migrate_flush", "migrate", "all_flush", "all"}
  PROVE  /\ Call(c, s, by, k) \in Calls
         /\ Call(c, s, by, k).client = c /\ Call(c, s, by, k).state = s
         /\ Call(c, s, by, k).by = by /\ Call(c, s, by, k).conn = k
BY DEF Call, Calls

\* A save that joins the queue.
LEMMA AppendNamed ==
  ASSUME NEW q \in Seq(Calls), NEW e \in Calls, NEW contexts, CallsNamed(q, contexts),
         e.by \in {"migrate_flush", "migrate"} => e.conn # NoConn /\ contexts[e.conn].id # NoClient
  PROVE  Append(q, e) \in Seq(Calls) /\ CallsNamed(Append(q, e), contexts)
<1>1. /\ Append(q, e) \in Seq(Calls) /\ Len(Append(q, e)) = Len(q) + 1 /\ Len(q) \in Nat
      /\ Append(q, e)[Len(q) + 1] = e
      /\ \A i \in 1 .. Len(q) : Append(q, e)[i] = q[i]
  OBVIOUS
<1>2. \A i \in 1 .. Len(q) + 1 : i \in 1 .. Len(q) \/ i = Len(q) + 1
  BY <1>1
<1>3. QED
  BY <1>1, <1>2 DEF CallsNamed

LEMMA FlushOk ==
  ASSUME TypeOK, NEW contexts \in [Conns -> Ctx], PendingNamed(pending, contexts), CallsNamed(calls, contexts),
         NEW c \in Clients, pending[c] # NoConn, Flush(c, contexts)
  PROVE  /\ calls' \in Seq(Calls) /\ CallsNamed(calls', contexts)
         /\ pending' \in [Clients -> MaybeConn] /\ IsFiniteSet(Pending(pending'))
         /\ PendingNamed(pending', contexts)
         /\ \E s \in State : calls' = Append(calls, Call(c, s, "flush", NoConn))
<1> DEFINE s == CaptureState(contexts[pending[c]], member)
<1>1. pending[c] \in Conns
  BY SomeConn DEF TypeOK
<1>2. s \in State
  BY <1>1, CaptureType DEF PendingNamed
<1>3. calls' = Append(calls, Call(c, s, "flush", NoConn)) /\ pending' = [pending EXCEPT ![c] = NoConn]
  BY DEF Flush
<1> HIDE DEF s
<1>4. NoConn \in MaybeConn
  BY DEF MaybeConn
<1>5. Call(c, s, "flush", NoConn) \in Calls /\ Call(c, s, "flush", NoConn).by = "flush"
  BY <1>2, <1>4, CallType
<1>6. calls' \in Seq(Calls) /\ CallsNamed(calls', contexts)
  BY <1>3, <1>5, AppendNamed DEF TypeOK
<1>7. pending' \in [Clients -> MaybeConn] /\ IsFiniteSet(Pending(pending'))
  BY <1>3, <1>4, PendingFinite DEF TypeOK
<1>8. PendingNamed(pending', contexts)
  BY <1>3 DEF PendingNamed, TypeOK
<1>9. QED
  BY <1>2, <1>3, <1>6, <1>7, <1>8

LEMMA CloseOk ==
  ASSUME Ok, NEW k \in Conns, Close(k)
  PROVE  /\ Ok' /\ Only(k)
         /\ LET y == conn'[k]  x == conn[k]
            IN  /\ y.step = x.step /\ y.sock = "closed" /\ y.token = x.token /\ y.id = x.id
                /\ y.inbox = x.inbox /\ y.verifies = x.verifies /\ y.awaits = x.awaits
                /\ y.interrupted = (x.step \in {"auth", "load"})
                /\ y.frozen = x.frozen \/ (x.id # NoClient /\ y.frozen = CaptureState(x, member))
         /\ IF conn[k].id = NoClient THEN UNCHANGED <<member, liveClients>>
            ELSE /\ liveClients' = [liveClients EXCEPT ![conn[k].id] = LiveWithout(conn[k].id, k)]
                 /\ member' = [member EXCEPT ![conn[k].id] = [r \in Rooms |-> NoConn]]
         /\ UNCHANGED <<deployment, store, handed, saving>>
         /\ \/ calls' = calls
            \/ \E s \in State : calls' = Append(calls, Call(conn[k].id, s, "flush", NoConn))
<1> DEFINE x == conn[k]
           id == x.id
           gone == [conn EXCEPT ![k].sock = "closed", ![k].interrupted = conn[k].step \in {"auth", "load"}]
           frozen == CaptureState(x, member)
<1>1. x \in Ctx /\ CtxNamed(x)
  BY DEF Ok, TypeOK, Named
<1>2. /\ gone \in [Conns -> Ctx] /\ \A j \in Conns : j # k => gone[j] = conn[j]
      /\ gone[k].step = x.step /\ gone[k].sock = "closed" /\ gone[k].token = x.token /\ gone[k].id = x.id
      /\ gone[k].inbox = x.inbox /\ gone[k].verifies = x.verifies /\ gone[k].awaits = x.awaits
      /\ gone[k].interrupted = (x.step \in {"auth", "load"}) /\ gone[k].frozen = x.frozen /\ gone[k].blob = x.blob
  <2>1. ASSUME NEW w \in BOOLEAN, w = (x.step \in {"auth", "load"})
        PROVE  gone[k] = [x EXCEPT !.sock = "closed", !.interrupted = w] /\ gone[k] \in Ctx
    <3>1. gone[k] = [x EXCEPT !.sock = "closed", !.interrupted = w]
      BY <2>1 DEF Ok, TypeOK
    <3>2. [x EXCEPT !.sock = "closed", !.interrupted = w] \in Ctx
      BY <1>1 DEF Ctx
    <3>3. QED
      BY <3>1, <3>2
  <2>2. PICK w \in BOOLEAN : w = (x.step \in {"auth", "load"})
    <3>1. CASE x.step \in {"auth", "load"}
      <4>1. TRUE = (x.step \in {"auth", "load"})
        BY <3>1
      <4>2. QED
        BY <4>1
    <3>2. CASE x.step \notin {"auth", "load"}
      <4>1. FALSE = (x.step \in {"auth", "load"})
        BY <3>2
      <4>2. QED
        BY <4>1
    <3>3. QED
      BY <3>1, <3>2
  <2>3. \A j \in Conns : j # k => gone[j] = conn[j]
    BY DEF Ok, TypeOK
  <2>4. DOMAIN gone = Conns /\ gone = [j \in Conns |-> gone[j]]
    BY DEF Ok, TypeOK
  <2>5. gone \in [Conns -> Ctx]
    BY <2>1, <2>2, <2>3, <2>4 DEF Ok, TypeOK
  <2>6. QED
    BY <1>1, <2>1, <2>2, <2>3, <2>5 DEF Ctx
<1>3. deployment' = deployment
  BY DEF Close
<1>4. CASE id = NoClient
  <2>1. conn' = gone /\ UNCHANGED <<member, liveClients, sessionVars, history>>
    BY <1>4 DEF Close
  <2> HIDE DEF gone
  <2>2. Only(k) /\ conn'[k].id = x.id /\ CtxNamed(conn'[k])
    BY <1>1, <1>2, <2>1 DEF Only, CtxNamed
  <2>3. Ok'
    BY <1>3, <2>1, <2>2, OnlyOk DEF others
  <2>4. QED
    BY <1>2, <1>3, <1>4, <2>1, <2>2, <2>3 DEF sessionVars
<1>5. CASE id # NoClient
  <2>1. Teardown(k, id, gone)
    BY <1>5 DEF Close
  <2> HIDE DEF gone
  <2>2. id \in Clients /\ frozen \in State
    BY <1>1, <1>5, CaptureType DEF Ctx, Ids
  <2>3. conn' = [gone EXCEPT ![k].frozen = frozen]
    BY <2>1 DEF Teardown
  <2> HIDE DEF frozen
  <2> DEFINE y == conn'[k]
  <2>4. y = [gone[k] EXCEPT !.frozen = frozen] /\ \A j \in Conns : j # k => conn'[j] = conn[j]
    BY <1>2, <2>3
  <2>5. /\ y \in Ctx /\ y.step = x.step /\ y.sock = "closed" /\ y.token = x.token /\ y.id = x.id
        /\ y.inbox = x.inbox /\ y.verifies = x.verifies /\ y.awaits = x.awaits /\ y.blob = x.blob
        /\ y.interrupted = (x.step \in {"auth", "load"}) /\ y.frozen = frozen
    <3>1. gone[k] \in Ctx
      BY <1>2
    <3>2. QED
      BY <1>2, <2>2, <2>4, <3>1 DEF Ctx, MaybeState
  <2>6. Only(k)
    BY <1>2, <2>3, <2>4, <2>5 DEF Only
  <2>7. CtxNamed(conn'[k])
    BY <1>1, <2>5 DEF CtxNamed
  <2>8. /\ \A j \in Conns : CtxNamed(conn'[j]) /\ PendingNamed(pending, conn')
        /\ CallsNamed(calls, conn') /\ LiveNamed(liveClients, conn')
    BY <2>5, <2>6, <2>7, OneContext DEF Ok
  <2>9. /\ calls' \in Seq(Calls) /\ CallsNamed(calls', conn')
        /\ pending' \in [Clients -> MaybeConn] /\ IsFiniteSet(Pending(pending'))
        /\ PendingNamed(pending', conn')
        /\ (calls' = calls \/ \E s \in State : calls' = Append(calls, Call(id, s, "flush", NoConn)))
    <3>1. CASE pending[id] = NoConn /\ UNCHANGED <<calls, pending>>
      BY <2>8, <3>1 DEF Ok, TypeOK
    <3>2. CASE pending[id] # NoConn /\ Flush(id, conn')
      <4>1. conn' \in [Conns -> Ctx]
        BY <2>6 DEF Only
      <4>2. QED
        BY <2>2, <2>8, <3>2, <4>1, FlushOk DEF Ok
    <3>3. QED
      BY <2>1, <3>1, <3>2 DEF Teardown
  <2>10. /\ liveClients' = [liveClients EXCEPT ![id] = LiveWithout(id, k)]
         /\ member' = [member EXCEPT ![id] = [r \in Rooms |-> NoConn]]
         /\ localSessions' = [localSessions EXCEPT ![id] = frozen]
         /\ UNCHANGED <<store, handed, saving>>
    BY <2>1 DEF Teardown, frozen
  <2>11. LiveNamed(liveClients', conn')
    BY <2>2, <2>8, <2>10 DEF LiveNamed, LiveWithout, Ok, TypeOK
  <2>12. TypeOK'
    <3>1. NoConn \in MaybeConn /\ [r \in Rooms |-> NoConn] \in [Rooms -> MaybeConn]
      BY DEF MaybeConn
    <3>2. member' \in [Clients -> [Rooms -> MaybeConn]]
      BY <2>2, <2>10, <3>1 DEF Ok, TypeOK
    <3>3. liveClients' \in [Clients -> MaybeConn]
      BY <2>2, <2>10, <3>1 DEF Ok, TypeOK, LiveWithout
    <3>4. localSessions' \in [Clients -> MaybeState]
      BY <2>2, <2>10 DEF Ok, TypeOK, MaybeState
    <3>5. QED
      BY <1>3, <2>6, <2>9, <2>10, <3>2, <3>3, <3>4 DEF Ok, TypeOK, Only
  <2>13. Named'
    BY <2>8, <2>9, <2>11 DEF Named
  <2>14. QED
    BY <1>3, <1>5, <2>5, <2>6, <2>9, <2>10, <2>12, <2>13 DEF Ok, frozen
<1>6. QED
  BY <1>4, <1>5

LEMMA TimerFiresOk ==
  ASSUME Ok, NEW c \in Clients, TimerFires(c)
  PROVE  Ok' /\ \E s \in State : calls' = Append(calls, Call(c, s, "flush", NoConn))
<1>1. /\ pending[c] # NoConn /\ Flush(c, conn)
      /\ UNCHANGED <<deployment, conn, member, liveClients, localSessions, store, handed, saving>>
  BY DEF TimerFires
<1>2. conn \in [Conns -> Ctx] /\ PendingNamed(pending, conn) /\ CallsNamed(calls, conn)
  BY DEF Ok, TypeOK, Named
<1>3. /\ calls' \in Seq(Calls) /\ CallsNamed(calls', conn)
      /\ pending' \in [Clients -> MaybeConn] /\ IsFiniteSet(Pending(pending'))
      /\ PendingNamed(pending', conn)
      /\ \E s \in State : calls' = Append(calls, Call(c, s, "flush", NoConn))
  BY <1>1, <1>2, FlushOk DEF Ok
<1>4. QED
  BY <1>1, <1>3 DEF Ok, TypeOK, Named

LEMMA MigrateClientOk ==
  ASSUME Ok, NEW c \in Clients, MigrateClient(c)
  PROVE  /\ Ok'
         /\ liveClients[c] \in Conns /\ conn[liveClients[c]].id = c
         /\ UNCHANGED <<deployment, conn, member, liveClients, store, handed, saving>>
         /\ \/ \E s \in State : calls' = Append(calls, Call(c, s, "migrate_flush", liveClients[c]))
            \/ calls' = Append(calls, Call(c, CaptureState(conn[liveClients[c]], member), "migrate", liveClients[c]))
<1> DEFINE k == liveClients[c]
           e1 == Call(c, CaptureState(conn[pending[c]], member), "migrate_flush", k)
           e2 == Call(c, CaptureState(conn[k], member), "migrate", k)
<1>1. k \in Conns /\ conn[k].id = c /\ k # NoConn /\ k \in MaybeConn
  BY SomeConn DEF MigrateClient, Ok, TypeOK, Named, LiveNamed, MaybeConn
<1>2. conn[k].id # NoClient /\ CaptureState(conn[k], member) \in State
  BY <1>1, CaptureType, GatewayAssumption DEF Ok, TypeOK
<1>3. UNCHANGED <<deployment, conn, member, liveClients, localSessions, store, handed, saving>>
  BY DEF MigrateClient
<1>4. pending[c] # NoConn => CaptureState(conn[pending[c]], member) \in State
  BY SomeConn, CaptureType DEF Ok, TypeOK, Named, PendingNamed
<1>5. /\ calls' \in Seq(Calls) /\ CallsNamed(calls', conn)
      /\ \/ \E s \in State : calls' = Append(calls, Call(c, s, "migrate_flush", k))
         \/ calls' = Append(calls, Call(c, CaptureState(conn[k], member), "migrate", k))
  <2>1. CASE pending[c] # NoConn /\ calls' = Append(calls, e1)
    <3>1. e1 \in Calls /\ e1.conn = k
      BY <1>1, <1>4, <2>1, CallType
    <3>2. QED
      BY <1>1, <1>2, <1>4, <2>1, <3>1, AppendNamed DEF Ok, TypeOK, Named
  <2>2. CASE pending[c] = NoConn /\ calls' = Append(calls, e2)
    <3>1. e2 \in Calls /\ e2.conn = k
      BY <1>1, <1>2, CallType
    <3>2. QED
      BY <1>1, <1>2, <2>2, <3>1, AppendNamed DEF Ok, TypeOK, Named
  <2>3. QED
    BY <2>1, <2>2 DEF MigrateClient
<1>6. pending' = [pending EXCEPT ![c] = NoConn] /\ NoConn \in MaybeConn
  BY DEF MigrateClient, MaybeConn
<1>7. pending' \in [Clients -> MaybeConn] /\ IsFiniteSet(Pending(pending'))
  BY <1>6, PendingFinite DEF Ok, TypeOK
<1>8. PendingNamed(pending', conn)
  BY <1>6 DEF PendingNamed, Ok, TypeOK, Named
<1>9. TypeOK' /\ Named'
  BY <1>3, <1>5, <1>7, <1>8 DEF Ok, TypeOK, Named
<1>10. QED
  BY <1>1, <1>3, <1>5, <1>9 DEF Ok

LEMMA SaveNextOk ==
  ASSUME Ok, NEW q \in Seq(Calls), CallsNamed(q, conn),
         NEW progress \in [visited : SUBSET Clients, blobs : [Clients -> MaybeState]],
         SaveNext(q, progress)
  PROVE  /\ localSessions' \in [Clients -> MaybeState]
         /\ calls' \in Seq(Calls) /\ CallsNamed(calls', conn)
         /\ saving' \in [visited : SUBSET Clients, blobs : [Clients -> MaybeState]]
         /\ saving'.blobs = progress.blobs
         /\ handed' \in SUBSET State
         /\ \A s \in handed' : s \in handed \/ \E c \in Clients : s = progress.blobs[c] /\ s # NoState
         /\ \/ calls' = q
            \/ \E c \in Clients :
                 /\ liveClients[c] \in Conns /\ conn[liveClients[c]].id = c
                 /\ calls' = Append(q, Call(c, CaptureState(conn[liveClients[c]], member), "all", liveClients[c]))
<1> DEFINE todo == {c \in Clients : liveClients[c] # NoConn} \ progress.visited
           told == {conn[k].id : k \in {j \in Conns : conn[j].sock = "open"}} \ {NoClient}
<1>1. CASE \E c \in todo :
             /\ localSessions' = [localSessions EXCEPT ![c] = CaptureState(conn[liveClients[c]], member)]
             /\ calls' = Append(q, Call(c, CaptureState(conn[liveClients[c]], member), "all", liveClients[c]))
             /\ saving' = [progress EXCEPT !.visited = @ \cup {c}]
             /\ UNCHANGED handed
  <2>1. PICK c \in Clients :
             /\ liveClients[c] # NoConn
             /\ localSessions' = [localSessions EXCEPT ![c] = CaptureState(conn[liveClients[c]], member)]
             /\ calls' = Append(q, Call(c, CaptureState(conn[liveClients[c]], member), "all", liveClients[c]))
             /\ saving' = [progress EXCEPT !.visited = @ \cup {c}]
             /\ UNCHANGED handed
    BY <1>1
  <2> DEFINE k == liveClients[c]
             s == CaptureState(conn[k], member)
  <2>2. k \in Conns /\ conn[k].id = c /\ k \in MaybeConn
    BY <2>1, SomeConn DEF Ok, TypeOK, Named, LiveNamed, MaybeConn
  <2>3. s \in State
    BY <2>2, CaptureType, GatewayAssumption DEF Ok, TypeOK
  <2>4. calls' = Append(q, Call(c, s, "all", k)) /\ localSessions' = [localSessions EXCEPT ![c] = s]
    BY <2>1
  <2> HIDE DEF s
  <2>5. Call(c, s, "all", k) \in Calls /\ Call(c, s, "all", k).by = "all"
    BY <2>2, <2>3, CallType
  <2>6. calls' \in Seq(Calls) /\ CallsNamed(calls', conn)
    BY <2>4, <2>5, AppendNamed
  <2>7. localSessions' \in [Clients -> MaybeState]
    BY <2>3, <2>4 DEF Ok, TypeOK, MaybeState
  <2>8. /\ saving' \in [visited : SUBSET Clients, blobs : [Clients -> MaybeState]]
        /\ saving'.blobs = progress.blobs
    BY <2>1
  <2>9. QED
    BY <2>1, <2>2, <2>4, <2>6, <2>7, <2>8 DEF Ok, TypeOK, s
<1>2. CASE /\ calls' = q
           /\ handed' = handed \cup ({progress.blobs[c] : c \in told} \ {NoState})
           /\ saving' = progress
           /\ UNCHANGED localSessions
  <2>1. told \subseteq Clients
    BY DEF Ok, TypeOK, Ctx, Ids
  <2> HIDE DEF told
  <2>2. \A s \in handed' : s \in handed \/ \E c \in Clients : s = progress.blobs[c] /\ s # NoState
    BY <1>2, <2>1
  <2>3. handed' \in SUBSET State
    BY <2>2 DEF Ok, TypeOK, MaybeState
  <2>4. QED
    BY <1>2, <2>2, <2>3 DEF Ok, TypeOK
<1>3. QED
  BY <1>1, <1>2 DEF SaveNext

\* Steps that close some sockets.
Closing == conn' \in [Conns -> Ctx] /\ \A k \in Conns : conn'[k] \in {conn[k], CloseSocket(conn[k])}

LEMMA ClosingSame ==
  ASSUME TypeOK, Closing, NEW k \in Conns
  PROVE  LET y == conn'[k]  x == conn[k]
         IN  /\ y.step = x.step /\ y.token = x.token /\ y.id = x.id /\ y.blob = x.blob
             /\ y.frozen = x.frozen /\ y.inbox = x.inbox
             /\ y.awaits = x.awaits /\ y.verifies = x.verifies /\ y.interrupted = x.interrupted
             /\ y.sock \in {"open", "closing"} <=> x.sock \in {"open", "closing"}
             /\ y = NoSocket <=> x = NoSocket
<1>1. conn[k] \in Ctx
  BY DEF TypeOK
<1>2. QED
  BY <1>1, ClosedSocket DEF Closing

LEMMA ClosingNamed ==
  ASSUME Ok, Closing
  PROVE  /\ \A k \in Conns : CtxNamed(conn'[k])
         /\ PendingNamed(pending, conn') /\ LiveNamed(liveClients, conn')
         /\ \A q \in Seq(Calls) : CallsNamed(q, conn) => CallsNamed(q, conn')
<1>1. \A k \in Conns : conn'[k].id = conn[k].id
  BY ClosingSame DEF Ok
<1>2. ASSUME NEW k \in Conns PROVE CtxNamed(conn'[k])
  BY ClosingSame DEF Ok, Named, CtxNamed
<1>3. PendingNamed(pending, conn') /\ LiveNamed(liveClients, conn')
  BY <1>1, SomeConn DEF PendingNamed, LiveNamed, Ok, TypeOK, Named
<1>4. ASSUME NEW q \in Seq(Calls), CallsNamed(q, conn)
      PROVE  CallsNamed(q, conn')
  <2> SUFFICES ASSUME NEW i \in 1 .. Len(q), q[i].by \in {"migrate_flush", "migrate"}
               PROVE  q[i].conn # NoConn /\ conn'[q[i].conn].id # NoClient
    BY DEF CallsNamed
  <2>1. q[i] \in Calls
    OBVIOUS
  <2>2. q[i].conn # NoConn /\ conn[q[i].conn].id # NoClient
    BY <1>4 DEF CallsNamed
  <2>3. q[i].conn \in Conns
    BY <2>1, <2>2 DEF Calls, MaybeConn
  <2>4. QED
    BY <1>1, <2>2, <2>3
<1>5. QED
  BY <1>2, <1>3, <1>4

LEMMA TailNamed ==
  ASSUME NEW q \in Seq(Calls), q # <<>>, NEW contexts, CallsNamed(q, contexts)
  PROVE  /\ Head(q) \in Calls /\ Tail(q) \in Seq(Calls) /\ CallsNamed(Tail(q), contexts)
         /\ Head(q).by \in {"migrate_flush", "migrate"} =>
              Head(q).conn \in Conns /\ contexts[Head(q).conn].id # NoClient
<1>1. /\ Head(q) \in Calls /\ Tail(q) \in Seq(Calls)
      /\ Len(Tail(q)) = Len(q) - 1
      /\ \A i \in 1 .. Len(Tail(q)) : Tail(q)[i] = q[i + 1]
      /\ Len(q) \in Nat \ {0}
  BY HeadTailProperties, EmptySeq
<1>2. \A i \in 1 .. Len(Tail(q)) : i + 1 \in 1 .. Len(q)
  BY <1>1
<1>3. CallsNamed(Tail(q), contexts)
  BY <1>1, <1>2 DEF CallsNamed
<1>4. 1 \in 1 .. Len(q) /\ Head(q) = q[1]
  BY <1>1
<1>5. Head(q).by \in {"migrate_flush", "migrate"} =>
        Head(q).conn # NoConn /\ contexts[Head(q).conn].id # NoClient
  BY <1>4 DEF CallsNamed
<1>6. QED
  BY <1>1, <1>3, <1>5 DEF Calls, MaybeConn

\* A save that was answered with success goes on to the caller's progress.
Progress(call, ok) == IF ok THEN [saving EXCEPT !.blobs[call.client] = call.state] ELSE saving

LEMMA ProgressType ==
  ASSUME TypeOK, NEW call \in Calls, NEW ok
  PROVE  /\ Progress(call, ok) \in [visited : SUBSET Clients, blobs : [Clients -> MaybeState]]
         /\ \A c \in Clients : Progress(call, ok).blobs[c] = saving.blobs[c]
                               \/ (ok /\ c = call.client /\ Progress(call, ok).blobs[c] = call.state)
<1>1. call.client \in Clients /\ call.state \in MaybeState
  BY DEF Calls, MaybeState
<1>2. saving \in [visited : SUBSET Clients, blobs : [Clients -> MaybeState]]
  BY DEF TypeOK
<1>3. QED
  BY <1>1, <1>2 DEF Progress

LEMMA SaveSettlesOk ==
  ASSUME Ok, NEW ok \in BOOLEAN, SaveSettles(ok)
  PROVE  Ok' /\ Closing /\ UNCHANGED <<deployment, member, liveClients>>
<1> DEFINE call == Head(calls)
           q == Tail(calls)
<1>1. calls # <<>> /\ calls \in Seq(Calls) /\ CallsNamed(calls, conn)
  BY DEF SaveSettles, Ok, TypeOK, Named
<1>2. /\ call \in Calls /\ q \in Seq(Calls) /\ CallsNamed(q, conn)
      /\ call.by \in {"migrate_flush", "migrate"} => call.conn \in Conns /\ conn[call.conn].id # NoClient
  BY <1>1, TailNamed
<1>3. /\ Continues(call, q, ok)
      /\ store' = (IF ok THEN [store EXCEPT ![call.client] = call.state] ELSE store)
      /\ UNCHANGED <<deployment, member, liveClients, pending, stage, history>>
  BY DEF SaveSettles
<1> HIDE DEF call, q
<1>4. store' \in [Clients -> MaybeState]
  BY <1>2, <1>3 DEF Ok, TypeOK, Calls, MaybeState
<1>5. ASSUME conn' = conn
      PROVE  Closing
  BY <1>5 DEF Closing, Ok, TypeOK
<1>6. ASSUME Closing,
             calls' \in Seq(Calls) /\ CallsNamed(calls', conn),
             localSessions' \in [Clients -> MaybeState],
             handed' \in SUBSET State,
             saving' \in [visited : SUBSET Clients, blobs : [Clients -> MaybeState]]
      PROVE  Ok'
  <2>1. /\ \A k \in Conns : CtxNamed(conn'[k])
        /\ PendingNamed(pending, conn') /\ LiveNamed(liveClients, conn')
        /\ CallsNamed(calls', conn')
    BY <1>6, ClosingNamed
  <2>2. TypeOK'
    BY <1>3, <1>4, <1>6 DEF Ok, TypeOK, Closing
  <2>3. Named'
    BY <1>3, <2>1 DEF Named
  <2>4. QED
    BY <2>2, <2>3 DEF Ok
<1>7. localSessions \in [Clients -> MaybeState] /\ handed \in SUBSET State
      /\ saving \in [visited : SUBSET Clients, blobs : [Clients -> MaybeState]]
  BY DEF Ok, TypeOK
<1>8. CASE calls' = q /\ UNCHANGED <<conn, localSessions, handed, saving>>
  BY <1>2, <1>3, <1>5, <1>6, <1>7, <1>8
<1>9. CASE /\ call.by = "migrate_flush"
           /\ calls' = Append(q, Call(call.client, CaptureState(conn[call.conn], member), "migrate", call.conn))
           /\ UNCHANGED <<conn, localSessions, handed, saving>>
  <2> DEFINE s == CaptureState(conn[call.conn], member)
             e == Call(call.client, s, "migrate", call.conn)
  <2>1. s \in State
    BY <1>2, <1>9, CaptureType DEF Ok, TypeOK
  <2> HIDE DEF s
  <2>2. call.client \in Clients /\ call.conn \in MaybeConn /\ call.conn # NoConn
    BY <1>2, <1>9, GatewayAssumption DEF Calls
  <2>3. e \in Calls /\ e.conn = call.conn
    BY <2>1, <2>2, CallType
  <2>4. calls' = Append(q, e)
    BY <1>9 DEF s
  <2> HIDE DEF e
  <2>5. calls' \in Seq(Calls) /\ CallsNamed(calls', conn)
    BY <1>2, <1>9, <2>2, <2>3, <2>4, AppendNamed
  <2>6. QED
    BY <1>3, <1>5, <1>6, <1>7, <1>9, <2>5
<1>10. CASE call.by = "migrate" /\ AfterMigrateSave(call, q, ok)
  <2>1. calls' = q /\ saving' = saving
    BY <1>10 DEF AfterMigrateSave
  <2>2. CASE /\ localSessions' = [localSessions EXCEPT ![call.client] = call.state]
             /\ handed' = (IF conn[call.conn].sock = "open" THEN handed \cup {call.state} ELSE handed)
             /\ conn' = [conn EXCEPT ![call.conn] = CloseSocket(@)]
    <3>1. call.client \in Clients /\ call.state \in State /\ call.conn \in Conns
      BY <1>2, <1>10 DEF Calls
    <3>2. conn' = [conn EXCEPT ![call.conn] = CloseSocket(conn[call.conn])]
      BY <2>2, <3>1 DEF Ok, TypeOK
    <3>3. CloseSocket(conn[call.conn]) \in Ctx
      BY <3>1, ClosedSocket DEF Ok, TypeOK
    <3>4. Closing
      BY <3>1, <3>2, <3>3 DEF Closing, Ok, TypeOK
    <3>5. localSessions' \in [Clients -> MaybeState] /\ handed' \in SUBSET State
      BY <1>7, <2>2, <3>1 DEF MaybeState
    <3>6. QED
      BY <1>2, <1>3, <1>6, <1>7, <2>1, <3>4, <3>5
  <2>3. CASE UNCHANGED <<conn, localSessions, handed>>
    BY <1>2, <1>3, <1>5, <1>6, <1>7, <2>1, <2>3
  <2>4. QED
    BY <1>10, <2>2, <2>3 DEF AfterMigrateSave
<1>11. ASSUME NEW progress \in [visited : SUBSET Clients, blobs : [Clients -> MaybeState]],
              SaveNext(q, progress), conn' = conn
       PROVE  Ok' /\ Closing
  <2>1. /\ localSessions' \in [Clients -> MaybeState]
        /\ calls' \in Seq(Calls) /\ CallsNamed(calls', conn)
        /\ saving' \in [visited : SUBSET Clients, blobs : [Clients -> MaybeState]]
        /\ handed' \in SUBSET State
    BY <1>2, <1>11, SaveNextOk
  <2>2. QED
    BY <1>5, <1>6, <1>11, <2>1
<1>12. CASE /\ calls' = q
            /\ UNCHANGED <<conn, localSessions, handed, saving>>
  BY <1>2, <1>3, <1>5, <1>6, <1>7, <1>12
<1>13. CASE SaveNext(q, saving) /\ conn' = conn
  BY <1>3, <1>7, <1>11, <1>13
<1>14. CASE SaveNext(q, Progress(call, ok)) /\ conn' = conn
  <2>1. Progress(call, ok) \in [visited : SUBSET Clients, blobs : [Clients -> MaybeState]]
    BY <1>2, ProgressType DEF Ok
  <2>2. QED
    BY <1>3, <1>11, <1>14, <2>1
<1>15. QED
  BY <1>3, <1>8, <1>9, <1>10, <1>12, <1>13, <1>14 DEF Continues, Progress

LEMMA NotifyOk ==
  ASSUME Ok, Notify
  PROVE  /\ Ok'
         /\ UNCHANGED <<deployment, conn, member, liveClients, store>>
         /\ \/ SaveNext(calls, NotSaving)
            \/ /\ UNCHANGED <<handed, saving>>
               /\ \A i \in 1 .. Len(calls') :
                    (i \in 1 .. Len(calls) /\ calls'[i] = calls[i]) \/ calls'[i].by = "all_flush"
<1> DEFINE dirty == {c \in Clients : pending[c] # NoConn}
<1>1. /\ UNCHANGED <<deployment, conn, member, liveClients, store>> /\ pending' = Nobody
      /\ calls \in Seq(Calls) /\ CallsNamed(calls, conn)
  BY DEF Notify, Ok, TypeOK, Named
<1>2. pending' \in [Clients -> MaybeConn] /\ IsFiniteSet(Pending(pending')) /\ PendingNamed(pending', conn)
  <2>1. Pending(Nobody) = {}
    BY DEF Pending, Nobody
  <2>2. QED
    BY <1>1, <2>1, FS_EmptySet DEF Nobody, MaybeConn, PendingNamed
<1>3. ASSUME calls' \in Seq(Calls) /\ CallsNamed(calls', conn),
             localSessions' \in [Clients -> MaybeState],
             handed' \in SUBSET State,
             saving' \in [visited : SUBSET Clients, blobs : [Clients -> MaybeState]]
      PROVE  Ok'
  <2>1. TypeOK'
    BY <1>1, <1>2, <1>3 DEF Ok, TypeOK
  <2>2. Named'
    BY <1>1, <1>2, <1>3 DEF Ok, Named
  <2>3. QED
    BY <2>1, <2>2 DEF Ok
<1>4. CASE SaveNext(calls, NotSaving)
  <2>1. NotSaving \in [visited : SUBSET Clients, blobs : [Clients -> MaybeState]]
    BY DEF NotSaving, NoStates, MaybeState
  <2>2. QED
    BY <1>1, <1>3, <1>4, <2>1, SaveNextOk
<1>5. CASE /\ \E order \in [1 .. Cardinality(dirty) -> dirty] :
                /\ {order[i] : i \in DOMAIN order} = dirty
                /\ calls' = calls \o [i \in DOMAIN order |->
                     Call(order[i], CaptureState(conn[pending[order[i]]], member), "all_flush", NoConn)]
           /\ UNCHANGED <<localSessions, handed, saving>>
  <2>1. PICK order \in [1 .. Cardinality(dirty) -> dirty] :
          calls' = calls \o [i \in DOMAIN order |->
            Call(order[i], CaptureState(conn[pending[order[i]]], member), "all_flush", NoConn)]
    BY <1>5
  <2> DEFINE e == [i \in DOMAIN order |->
            Call(order[i], CaptureState(conn[pending[order[i]]], member), "all_flush", NoConn)]
             n == Cardinality(dirty)
  <2>2. n \in Nat
    BY FS_CardinalityType DEF Ok, TypeOK, Pending
  <2> HIDE DEF n
  <2>3. DOMAIN order = 1 .. n
    BY DEF n
  <2>4. ASSUME NEW i \in 1 .. n
        PROVE  e[i] \in Calls /\ e[i].by = "all_flush"
    <3>1. order[i] \in Clients /\ pending[order[i]] # NoConn
      BY DEF n
    <3>2. CaptureState(conn[pending[order[i]]], member) \in State
      BY <3>1, SomeConn, CaptureType DEF Ok, TypeOK, Named, PendingNamed
    <3>3. NoConn \in MaybeConn
      BY DEF MaybeConn
    <3>4. e[i] = Call(order[i], CaptureState(conn[pending[order[i]]], member), "all_flush", NoConn)
      BY <2>3
    <3>5. QED
      BY <3>1, <3>2, <3>3, <3>4, CallType
  <2>5. DOMAIN e = 1 .. n /\ e = [i \in 1 .. n |-> e[i]]
    BY <2>3
  <2>6. calls' = calls \o e
    BY <2>1
  <2> HIDE DEF e
  <2>7. e \in Seq(Calls) /\ Len(e) = n
    <3>1. e \in [1 .. n -> Calls]
      BY <2>4, <2>5
    <3>2. e \in Seq(Calls)
      BY <2>2, <3>1, SeqDef
    <3>3. QED
      BY <2>2, <2>5, <3>2, LenProperties
  <2>8. /\ calls' \in Seq(Calls) /\ Len(calls') = Len(calls) + n
        /\ \A i \in 1 .. Len(calls) + n : calls'[i] = IF i <= Len(calls) THEN calls[i] ELSE e[i - Len(calls)]
    BY <1>1, <2>6, <2>7, ConcatProperties
  <2>9. ASSUME NEW i \in 1 .. Len(calls')
        PROVE  (i \in 1 .. Len(calls) /\ calls'[i] = calls[i]) \/ calls'[i].by = "all_flush"
    <3>1. Len(calls) \in Nat
      BY <1>1, LenProperties
    <3>2. CASE i <= Len(calls)
      BY <2>8, <3>1, <3>2
    <3>3. CASE ~(i <= Len(calls))
      <4>1. i - Len(calls) \in 1 .. n /\ calls'[i] = e[i - Len(calls)]
        BY <2>2, <2>8, <3>1, <3>3
      <4>2. QED
        BY <2>4, <4>1
    <3>4. QED
      BY <3>2, <3>3
  <2>10. CallsNamed(calls', conn)
    <3> SUFFICES ASSUME NEW i \in 1 .. Len(calls'), calls'[i].by \in {"migrate_flush", "migrate"}
                 PROVE  calls'[i].conn # NoConn /\ conn[calls'[i].conn].id # NoClient
      BY DEF CallsNamed
    <3>1. calls'[i].by # "all_flush"
      OBVIOUS
    <3>2. i \in 1 .. Len(calls) /\ calls'[i] = calls[i]
      BY <2>9, <3>1
    <3>3. QED
      BY <1>1, <3>2 DEF CallsNamed
  <2>11. Ok'
    BY <1>1, <1>3, <1>5, <2>8, <2>10 DEF Ok, TypeOK
  <2>12. QED
    BY <1>1, <1>5, <2>9, <2>11
<1>6. QED
  BY <1>1, <1>4, <1>5 DEF Notify

LEMMA CloseConnectionsOk ==
  ASSUME Ok, CloseConnections
  PROVE  Ok' /\ Closing
         /\ UNCHANGED <<deployment, member, liveClients, sessionVars>>
<1>1. /\ conn' = [k \in Conns |-> CloseSocket(conn[k])]
      /\ UNCHANGED <<deployment, member, liveClients, sessionVars>>
  BY DEF CloseConnections
<1>2. \A k \in Conns : CloseSocket(conn[k]) \in Ctx
  BY ClosedSocket DEF Ok, TypeOK
<1>3. Closing
  BY <1>1, <1>2 DEF Closing
<1>4. TypeOK'
  BY <1>1, <1>3 DEF Ok, TypeOK, Closing, sessionVars
<1>5. Named'
  BY <1>1, <1>3, ClosingNamed DEF Ok, TypeOK, Named, sessionVars
<1>6. QED
  BY <1>1, <1>3, <1>4, <1>5 DEF Ok

\* Some numbers below a bound have a largest one.
LEMMA LatestOf ==
  ASSUME NEW n \in Nat, NEW S, S \subseteq 1 .. n, S # {}
  PROVE  \E i \in S : \A j \in S : j <= i
<1> DEFINE T == {n - i : i \in S}
<1>0. \A i \in S : n - i \in Nat
  OBVIOUS
<1>1. T \subseteq Nat /\ T # {}
  BY <1>0
<1>2. PICK x \in T : \A y \in T : ~ (<<y, x>> \in OpToRel(<, Nat))
  BY <1>1, NatLessThanWellFounded, WFMin
<1>3. PICK i \in S : x = n - i
  OBVIOUS
<1>4. ASSUME NEW j \in S
      PROVE  j <= i
  <2>1. n - j \in T /\ n - j \in Nat /\ x \in Nat /\ i \in Nat /\ j \in Nat
    BY <1>1
  <2> HIDE DEF T
  <2>2. n - j < x => <<n - j, x>> \in OpToRel(<, Nat)
    BY <2>1 DEF OpToRel
  <2>3. ~(n - j < x)
    BY <1>2, <2>1, <2>2
  <2>4. QED
    BY <1>3, <2>1, <2>3
<1>5. QED
  BY <1>4

LEMMA ExitOk ==
  ASSUME Ok, Exit
  PROVE  /\ Ok'
         /\ \A k \in Conns :
              /\ conn'[k] = NoSocket <=> conn[k] = NoSocket
              /\ conn'[k].step \in {"none", "gone"} /\ conn'[k].sock \in {"none", "closed"}
              /\ conn'[k].id = NoClient /\ conn'[k].token = NoClient /\ conn'[k].verifies = NoClient
              /\ conn'[k].awaits = NoClient /\ conn'[k].inbox = NoFrame /\ conn'[k].frozen = NoState
         /\ member' = NoMembers /\ liveClients' = Nobody /\ calls' = <<>> /\ saving' = NotSaving
         /\ \/ handed' = {}
            \/ handed' = handed /\ \A c \in Clients : store[c] # NoState => store'[c] # NoState
         /\ deployment' = deployment
<1> DEFINE gone == [NoSocket EXCEPT !.step = "gone", !.sock = "closed"]
<1>1. gone \in Ctx /\ gone.step = "gone" /\ gone.sock = "closed" /\ gone.id = NoClient
      /\ gone.token = NoClient /\ gone.verifies = NoClient /\ gone.awaits = NoClient
      /\ gone.inbox = NoFrame /\ gone.frozen = NoState
  BY NoSocketType DEF Ctx
<1>2. conn' = [k \in Conns |-> IF conn[k] = NoSocket THEN NoSocket ELSE gone]
  BY DEF Exit
<1> HIDE DEF gone
<1>3. conn' \in [Conns -> Ctx]
  BY <1>1, <1>2, NoSocketType
<1>4. ASSUME NEW k \in Conns
      PROVE  /\ conn'[k] = NoSocket <=> conn[k] = NoSocket
             /\ conn'[k].step \in {"none", "gone"} /\ conn'[k].sock \in {"none", "closed"}
             /\ conn'[k].id = NoClient /\ conn'[k].token = NoClient /\ conn'[k].verifies = NoClient
             /\ conn'[k].awaits = NoClient /\ conn'[k].inbox = NoFrame /\ conn'[k].frozen = NoState
  BY <1>1, <1>2, NoSocketType
<1>5. /\ member' = NoMembers /\ liveClients' = Nobody /\ localSessions' = NoStates
      /\ pending' = Nobody /\ calls' = <<>> /\ saving' = NotSaving
      /\ deployment' = deployment
  BY DEF Exit
<1>61. ASSUME SharedStoreRemains
       PROVE  /\ store' \in [Clients -> MaybeState] /\ handed' = handed
              /\ \A c \in Clients : store[c] # NoState => store'[c] # NoState
  <2>1. PICK n \in 0 .. Len(calls) :
          LET sent(c) == {i \in 1 .. n : calls[i].client = c}
              latest(c) == CHOOSE i \in sent(c) : \A j \in sent(c) : j <= i
          IN  store' = [c \in Clients |-> IF sent(c) = {} THEN store[c] ELSE calls[latest(c)].state]
    BY <1>61 DEF SharedStoreRemains
  <2> DEFINE sent(c) == {i \in 1 .. n : calls[i].client = c}
             latest(c) == CHOOSE i \in sent(c) : \A j \in sent(c) : j <= i
  <2>2. calls \in Seq(Calls) /\ Len(calls) \in Nat /\ n \in Nat
    BY DEF Ok, TypeOK
  <2>3. ASSUME NEW c \in Clients, sent(c) # {}
        PROVE  calls[latest(c)].state \in State
    <3>1. \E i \in sent(c) : \A j \in sent(c) : j <= i
      <4>1. sent(c) \subseteq 1 .. n
        OBVIOUS
      <4> HIDE DEF sent
      <4>2. QED
        BY <2>2, <2>3, <4>1, LatestOf
    <3>2. latest(c) \in sent(c)
      <4> HIDE DEF sent
      <4>1. QED
        BY <3>1
    <3>3. latest(c) \in 1 .. Len(calls)
      <4> HIDE DEF latest
      <4>1. QED
        BY <2>2, <3>2
    <3> HIDE DEF latest
    <3>4. calls[latest(c)] \in Calls
      BY <2>2, <3>3
    <3>5. QED
      BY <3>4 DEF Calls
  <2>4. store' = [c \in Clients |-> IF sent(c) = {} THEN store[c] ELSE calls[latest(c)].state]
    BY <2>1
  <2> HIDE DEF sent, latest
  <2>5. ASSUME NEW c \in Clients
        PROVE  store'[c] \in MaybeState /\ (store[c] # NoState => store'[c] # NoState)
    BY <2>3, <2>4, StateAssumption DEF Ok, TypeOK, MaybeState
  <2>6. /\ store' \in [Clients -> MaybeState]
        /\ \A c \in Clients : store[c] # NoState => store'[c] # NoState
    BY <2>4, <2>5
  <2>7. handed' = handed
    BY <1>61 DEF SharedStoreRemains
  <2>8. QED
    BY <2>6, <2>7
<1>62. ASSUME store' = NoStates PROVE store' \in [Clients -> MaybeState]
  BY <1>62 DEF NoStates, MaybeState
<1>6. /\ store' \in [Clients -> MaybeState]
      /\ \/ handed' = {}
         \/ handed' = handed /\ \A c \in Clients : store[c] # NoState => store'[c] # NoState
  BY <1>61, <1>62 DEF Exit
<1>63. handed' \in SUBSET State
  BY <1>6 DEF Ok, TypeOK
<1>7. TypeOK'
  <2>1. Pending(Nobody) = {} /\ Nobody \in [Clients -> MaybeConn]
    BY DEF Pending, Nobody, MaybeConn
  <2>2. NoMembers \in [Clients -> [Rooms -> MaybeConn]]
    BY DEF NoMembers, MaybeConn
  <2>3. NoStates \in [Clients -> MaybeState] /\ NotSaving \in [visited : SUBSET Clients, blobs : [Clients -> MaybeState]]
    BY DEF NotSaving, NoStates, MaybeState
  <2>4. calls' \in Seq(Calls)
    BY <1>5
  <2>5. IsFiniteSet(Pending(pending'))
    BY <1>5, <2>1, FS_EmptySet
  <2>6. QED
    BY <1>3, <1>5, <1>6, <1>63, <2>1, <2>2, <2>3, <2>4, <2>5 DEF Ok, TypeOK
<1>8. Named'
  <2>1. \A k \in Conns : CtxNamed(conn'[k])
    BY <1>4 DEF CtxNamed
  <2>2. PendingNamed(pending', conn') /\ LiveNamed(liveClients', conn')
    BY <1>5 DEF PendingNamed, LiveNamed, Nobody
  <2>3. CallsNamed(calls', conn')
    BY <1>5 DEF CallsNamed
  <2>4. QED
    BY <2>1, <2>2, <2>3 DEF Named
<1>9. QED
  BY <1>4, <1>5, <1>6, <1>7, <1>8 DEF Ok

\* What a client may present is a state.
LEMMA BlobsTyped == Ok => Blobs \subseteq MaybeState /\ deployment.clients \subseteq Clients
<1> SUFFICES ASSUME Ok PROVE Blobs \subseteq MaybeState /\ deployment.clients \subseteq Clients
  OBVIOUS
<1>1. deployment.clients \subseteq Clients /\ handed \subseteq State
  BY GatewayAssumption DEF Ok, TypeOK
<1>2. [clientId : deployment.clients, rooms : SUBSET Rooms] \subseteq State
  BY <1>1 DEF State
<1>3. QED
  BY <1>1, <1>2 DEF Blobs, MaybeState

LEMMA UnchangedOk ==
  ASSUME Ok, UNCHANGED <<deployment, conn, member, liveClients, sessionVars>>
  PROVE  Ok'
BY DEF Ok, TypeOK, Named, sessionVars

LEMMA InitOk == Init => Ok
<1> SUFFICES ASSUME Init PROVE Ok
  OBVIOUS
<1> USE DEF Init
<1>1. Pending(Nobody) = {} /\ Nobody \in [Clients -> MaybeConn]
  BY DEF Pending, Nobody, MaybeConn
<1>2. NoMembers \in [Clients -> [Rooms -> MaybeConn]]
  BY DEF NoMembers, MaybeConn
<1>3. NoStates \in [Clients -> MaybeState] /\ NotSaving \in [visited : SUBSET Clients, blobs : [Clients -> MaybeState]]
  BY DEF NotSaving, NoStates, MaybeState
<1>4. IsFiniteSet(Pending(pending))
  BY <1>1, FS_EmptySet
<1>5. conn \in [Conns -> Ctx]
  BY NoSocketType
<1>6. TypeOK
  BY <1>1, <1>2, <1>3, <1>4, <1>5 DEF TypeOK
<1>7. \A k \in Conns : CtxNamed(conn[k])
  BY NoSocketType DEF CtxNamed
<1>8. PendingNamed(pending, conn) /\ LiveNamed(liveClients, conn) /\ CallsNamed(calls, conn)
  BY DEF PendingNamed, LiveNamed, CallsNamed, Nobody
<1>9. QED
  BY <1>6, <1>7, <1>8 DEF Ok, Named

\* What a step of the next-state relation is, with the types of its parameters.
LEMMA NextOk == Ok /\ [Next]_vars => Ok'
<1> SUFFICES ASSUME Ok, [Next]_vars PROVE Ok'
  OBVIOUS
<1>1. deployment.clients \subseteq Clients /\ Blobs \subseteq MaybeState
  BY BlobsTyped
<1>2. ASSUME NEW k \in Conns, AuthFails(k) \/ AuthSucceeds(k) \/ RefreshSettles(k) \/ HandleWaiting(k)
      PROVE  Ok'
  BY <1>2, AuthFailsOk, AuthSucceedsOk, RefreshSettlesOk, HandleWaitingOk
<1>3. ASSUME NEW k \in Conns, NEW c \in deployment.clients, NEW blob \in Blobs, NEW cookie \in BOOLEAN,
             Connection(k, c, blob, cookie)
      PROVE  Ok'
  <2>1. c \in Clients /\ blob \in MaybeState
    BY <1>1 DEF MaybeState
  <2>2. QED
    BY <1>3, <2>1, ConnectionOk
<1>4. ASSUME NEW k \in Conns, LoadSettles(k) \/ LocationSettles(k) \/ Close(k)
      PROVE  Ok'
  BY <1>4, LoadSettlesOk, LocationSettlesOk, CloseOk
<1>5. ASSUME NEW k \in Conns, NEW f \in Frames, FrameWaits(k, f) \/ HandleFrame(k, f)
      PROVE  Ok'
  BY <1>5, FrameWaitsOk, HandleFrameOk
<1>6. ASSUME NEW c \in Clients, FenceCrossed(c) \/ TimerFires(c) \/ MigrateClient(c)
      PROVE  Ok'
  BY <1>6, FenceCrossedOk, TimerFiresOk, MigrateClientOk
<1>7. ASSUME NEW ok \in BOOLEAN, SaveSettles(ok)
      PROVE  Ok'
  BY <1>7, SaveSettlesOk
<1>8. CASE Signal \/ Drain \/ Restart
  BY <1>8, UnchangedOk DEF Signal, Drain, Restart
<1>9. CASE Notify
  BY <1>9, NotifyOk
<1>10. CASE CloseConnections
  BY <1>10, CloseConnectionsOk
<1>11. CASE WssCloses \/ ForceExit \/ Crash
  BY <1>11, ExitOk DEF WssCloses, ForceExit, Crash
<1>12. CASE UNCHANGED vars
  BY <1>12, UnchangedOk DEF vars
<1>13. QED
  BY <1>2, <1>3, <1>4, <1>5, <1>6, <1>7, <1>8, <1>9, <1>10, <1>11, <1>12 DEF Next, Event

-------------------------------------------------------------------------------
(* Live contexts and rooms *)

LEMMA FreeCtx ==
  ASSUME NEW k \in Conns, NEW c, Free(c, k), ~Has("overlap"), NEW j \in Conns, j # k, Used(c, conn[j])
  PROVE  IsOver(conn[j])
<1>1. c \in Uses(j)
  BY DEF Used, Uses
<1>2. Over(j)
  BY <1>1 DEF Free
<1>3. QED
  BY <1>2 DEF Over, IsOver, Connected

LEMMA InOrderKept ==
  ASSUME Ok, InOrder, NEW k \in Conns, Only(k), conn[k] # NoSocket, conn'[k] # NoSocket,
         conn'[k].step = "auth" => conn[k].step = "auth"
  PROVE  InOrder'
BY DEF InOrder, Only

\* No connection takes an id that another one still uses.
LEMMA ExclusiveKept ==
  ASSUME Ok, Exclusive, NEW k \in Conns, Only(k), deployment' = deployment,
         \A c \in Clients : Used(c, conn'[k]) => Used(c, conn[k]) \/ Free(c, k),
         IsOver(conn[k]) => IsOver(conn'[k])
  PROVE  Exclusive'
<1> SUFFICES ASSUME ~Has("overlap"), NEW c \in Clients, NEW j \in Conns, NEW l \in Conns,
                    j # l, Used(c, conn'[j]), Used(c, conn'[l])
             PROVE  IsOver(conn'[j]) \/ IsOver(conn'[l])
  BY DEF Exclusive, Has
<1>1. \A i \in Conns : i # k => conn'[i] = conn[i]
  BY DEF Only
<1>2. \A i \in Conns : IsOver(conn[i]) => IsOver(conn'[i])
  BY <1>1
<1>3. ASSUME NEW i \in Conns, i # k, Used(c, conn'[i]), Used(c, conn'[k])
      PROVE  IsOver(conn'[i]) \/ IsOver(conn'[k])
  <2>1. Used(c, conn[i])
    BY <1>1, <1>3
  <2>2. CASE Used(c, conn[k])
    BY <1>2, <1>3, <2>1, <2>2 DEF Exclusive
  <2>3. CASE Free(c, k)
    <3>1. IsOver(conn[i])
      BY <1>3, <2>1, <2>3, FreeCtx
    <3>2. QED
      BY <1>2, <3>1
  <2>4. QED
    BY <1>3, <2>2, <2>3
<1>4. CASE j # k /\ l # k
  <2>1. IsOver(conn[j]) \/ IsOver(conn[l])
    BY <1>1, <1>4 DEF Exclusive
  <2>2. QED
    BY <1>2, <2>1
<1>5. QED
  BY <1>3, <1>4

\* What a step of one connection keeps when it leaves ids and live contexts alone.
LEMMA PromptKept ==
  ASSUME Ok, Ok', Prompt, Ordinary, deployment' = deployment, NEW k \in Conns, Only(k),
         conn[k] # NoSocket, conn'[k] # NoSocket,
         CtxPrompt(conn'[k]),
         conn'[k].sock \in {"open", "closing"} <=> conn[k].sock \in {"open", "closing"},
         conn'[k].id = conn[k].id, conn'[k].interrupted = conn[k].interrupted,
         conn'[k].step = "auth" => conn[k].step = "auth",
         \A c \in Clients : Used(c, conn'[k]) => Used(c, conn[k]) \/ Free(c, k),
         IsOver(conn[k]) => IsOver(conn'[k]),
         liveClients' = liveClients,
         member' = member \/ (Joined(k, conn[k].id) /\ Excused(conn[k]))
  PROVE  Prompt'
<1>1. /\ \A j \in Conns : CtxPrompt(conn[j])
      /\ InOrder /\ Exclusive /\ LiveExcused /\ NewestLive /\ MembersNamed
  BY DEF Prompt
<1>2. InOrder' /\ Exclusive'
  BY <1>1, InOrderKept, ExclusiveKept
<1>3. \A f : Has(f)' = Has(f)
  BY DEF Has
<1>4. (\A j \in Conns : CtxPrompt(conn[j]))'
  BY <1>1, <1>3 DEF Only, CtxPrompt
<1>5. \A j \in Conns : conn'[j].id = conn[j].id /\ (Excused(conn[j]) <=> Excused(conn'[j]))
  BY DEF Only, Excused
<1>6. Connected' = Connected
  BY DEF Connected, Only
<1>7. LiveExcused'
  BY <1>1, <1>5, SomeConn DEF LiveExcused, Ok, TypeOK
<1>8. NewestLive'
  BY <1>1, <1>3, <1>5, <1>6 DEF NewestLive, Connected
<1>9. MembersNamed'
  <2> SUFFICES ASSUME NEW c \in Clients, NEW r \in Rooms, member'[c][r] # NoConn
               PROVE  /\ Excused(conn'[member'[c][r]])
                      /\ member'[c][r] \in Connected' => conn'[member'[c][r]].id = c
    BY DEF MembersNamed
  <2>1. CASE member'[c][r] = member[c][r]
    <3>1. member[c][r] \in Conns
      BY <2>1 DEF Ok, TypeOK, MaybeConn
    <3>2. QED
      BY <1>1, <1>5, <1>6, <2>1, <3>1 DEF MembersNamed
  <2>2. CASE c = conn[k].id /\ member'[c][r] = k /\ Excused(conn[k])
    BY <1>5, <2>2
  <2>3. QED
    BY <2>1, <2>2 DEF Joined
<1>10. QED
  BY <1>2, <1>4, <1>7, <1>8, <1>9 DEF Prompt

LEMMA NotNoSocket ==
  ASSUME NEW x, x.step # "none" \/ x.id # NoClient
  PROVE  x # NoSocket
BY NoSocketType

LEMMA AuthFailsPrompt ==
  ASSUME Ok, Ok', Prompt, Ordinary, NEW k \in Conns, AuthFails(k)
  PROVE  Prompt'
<1>1. /\ deployment' = deployment /\ conn[k].step = "auth"
      /\ UNCHANGED <<member, liveClients>>
  BY DEF AuthFails
<1>2. /\ Only(k)
      /\ LET y == conn'[k]  x == conn[k]
         IN  /\ y.step = "failed" /\ (y.sock \in {"open", "closing"} <=> x.sock \in {"open", "closing"})
             /\ y.token = x.token /\ y.id = x.id /\ y.frozen = x.frozen /\ y.inbox = x.inbox
             /\ y.awaits = x.awaits /\ y.verifies = x.verifies /\ y.interrupted = x.interrupted
  BY AuthFailsOk
<1>3. conn[k] # NoSocket /\ conn'[k] # NoSocket
  BY <1>1, <1>2, NotNoSocket
<1>4. CtxPrompt(conn[k])
  BY DEF Prompt
<1>5. CtxPrompt(conn'[k])
  BY <1>1, <1>2, <1>4 DEF CtxPrompt, Excused
<1>6. ~IsOver(conn[k])
  BY <1>1 DEF IsOver
<1>7. \A c \in Clients : Used(c, conn'[k]) => Used(c, conn[k])
  BY <1>2 DEF Used
<1>8. QED
  BY <1>1, <1>2, <1>3, <1>5, <1>6, <1>7, PromptKept

LEMMA LoadSettlesPrompt ==
  ASSUME Ok, Ok', Prompt, Ordinary, NEW k \in Conns, LoadSettles(k)
  PROVE  Prompt'
<1>1. /\ Only(k)
      /\ conn[k].step = "load" /\ conn[k].id \in Clients
      /\ Joined(k, conn[k].id)
      /\ LET y == conn'[k]  x == conn[k]
         IN  /\ y.step = "ready" /\ y.token = x.token /\ y.id = x.id
             /\ y.sock = x.sock /\ y.frozen = x.frozen /\ y.inbox = x.inbox
             /\ y.awaits = x.awaits /\ y.verifies = x.verifies /\ y.interrupted = x.interrupted
      /\ UNCHANGED <<deployment, liveClients, calls, store, handed, saving>>
  BY LoadSettlesOk
<1>2. conn[k] # NoSocket /\ conn'[k] # NoSocket
  BY <1>1, NotNoSocket
<1>3. CtxPrompt(conn[k])
  BY DEF Prompt
<1>4. Excused(conn[k])
  BY <1>1, <1>3 DEF CtxPrompt
<1>5. CtxPrompt(conn'[k])
  <2>1. Excused(conn'[k])
    BY <1>1, <1>4 DEF Excused
  <2>2. QED
    BY <1>1, <1>3, <2>1 DEF CtxPrompt
<1>6. ~IsOver(conn[k])
  BY <1>1 DEF IsOver
<1>7. \A c \in Clients : Used(c, conn'[k]) => Used(c, conn[k])
  BY <1>1 DEF Used
<1>8. QED
  BY <1>1, <1>2, <1>4, <1>5, <1>6, <1>7, PromptKept

LEMMA FrameWaitsPrompt ==
  ASSUME Ok, Ok', Prompt, Ordinary, NEW k \in Conns, NEW f \in Frames, FrameWaits(k, f)
  PROVE  Prompt'
<1>1. /\ Only(k)
      /\ conn[k].step = "load"
      /\ LET y == conn'[k]  x == conn[k]
         IN  /\ y.inbox = f /\ y.step = "load" /\ y.token = x.token /\ y.id = x.id
             /\ y.sock = x.sock /\ y.frozen = x.frozen
             /\ y.awaits = x.awaits /\ y.verifies = x.verifies /\ y.interrupted = x.interrupted
  BY FrameWaitsOk
<1>2. /\ UNCHANGED <<deployment, member, liveClients>>
      /\ f.type = "refresh" => Has("refresh") /\ Free(f.to, k)
  BY DEF FrameWaits, MayReceive
<1>3. conn[k] # NoSocket /\ conn'[k] # NoSocket
  BY <1>1, NotNoSocket
<1>4. CtxPrompt(conn[k])
  BY DEF Prompt
<1>5. Excused(conn[k])
  BY <1>1, <1>4 DEF CtxPrompt
<1>6. CtxPrompt(conn'[k])
  <2>1. Excused(conn'[k])
    BY <1>1, <1>5 DEF Excused
  <2>2. QED
    BY <1>1, <1>2, <1>4, <2>1 DEF CtxPrompt
<1>7. ~IsOver(conn[k])
  BY <1>1 DEF IsOver
<1>8. \A c \in Clients : Used(c, conn'[k]) => Used(c, conn[k]) \/ Free(c, k)
  BY <1>1, <1>2 DEF Used
<1>9. QED
  BY <1>1, <1>2, <1>3, <1>6, <1>7, <1>8, PromptKept

LEMMA HandleFramePrompt ==
  ASSUME Ok, Ok', Prompt, Ordinary, NEW k \in Conns, NEW f \in Frames, HandleFrame(k, f)
  PROVE  Prompt'
<1>1. /\ Only(k) /\ conn[k].id \in Clients /\ Joined(k, conn[k].id)
      /\ LET y == conn'[k]  x == conn[k]
         IN  /\ y.step = x.step /\ y.sock = x.sock /\ y.token = x.token /\ y.id = x.id
             /\ y.frozen = x.frozen /\ y.inbox = x.inbox /\ y.interrupted = x.interrupted
             /\ y.verifies = x.verifies \/ (f.type = "refresh" /\ y.verifies = f.to)
  BY HandleFrameOk
<1>2. /\ UNCHANGED <<deployment, liveClients>>
      /\ conn[k].step = "ready" /\ conn[k].sock \in {"open", "closing"}
      /\ f.type = "refresh" => Has("refresh") /\ Free(f.to, k)
  BY DEF HandleFrame, MayReceive
<1>3. conn[k] # NoSocket /\ conn'[k] # NoSocket
  BY <1>1, <1>2, NotNoSocket
<1>4. CtxPrompt(conn[k]) /\ Excused(conn[k])
  BY <1>2 DEF Prompt, Excused
<1>5. CtxPrompt(conn'[k])
  BY <1>1, <1>2, <1>4 DEF CtxPrompt, Excused
<1>6. ~IsOver(conn[k])
  BY <1>2 DEF IsOver
<1>7. \A c \in Clients : Used(c, conn'[k]) => Used(c, conn[k]) \/ Free(c, k)
  BY <1>1, <1>2 DEF Used
<1>8. QED
  BY <1>1, <1>2, <1>3, <1>4, <1>5, <1>6, <1>7, PromptKept

LEMMA HandleWaitingPrompt ==
  ASSUME Ok, Ok', Prompt, Ordinary, NEW k \in Conns, HandleWaiting(k)
  PROVE  Prompt'
<1>1. /\ Only(k) /\ conn[k].id \in Clients /\ Joined(k, conn[k].id)
      /\ LET y == conn'[k]  x == conn[k]
         IN  /\ y.step = x.step /\ y.sock = x.sock /\ y.token = x.token /\ y.id = x.id
             /\ y.frozen = x.frozen /\ y.inbox = NoFrame /\ y.interrupted = x.interrupted
             /\ y.verifies = x.verifies \/ (x.inbox.type = "refresh" /\ y.verifies = x.inbox.to)
  BY HandleWaitingOk
<1>2. /\ UNCHANGED <<deployment, liveClients>>
      /\ conn[k].step = "ready" /\ conn[k].inbox # NoFrame
  BY DEF HandleWaiting
<1>3. conn[k] # NoSocket /\ conn'[k] # NoSocket
  BY <1>1, <1>2, NotNoSocket
<1>4. CtxPrompt(conn[k])
  BY DEF Prompt
<1>5. Excused(conn[k]) /\ Excused(conn'[k])
  BY <1>1, <1>2, <1>4 DEF CtxPrompt, Excused
<1>6. CtxPrompt(conn'[k])
  BY <1>1, <1>2, <1>4, <1>5 DEF CtxPrompt, NoFrame
<1>7. ~IsOver(conn[k])
  BY <1>2 DEF IsOver
<1>8. \A c \in Clients : Used(c, conn'[k]) => Used(c, conn[k])
  BY <1>1 DEF Used, NoFrame
<1>9. QED
  BY <1>1, <1>2, <1>3, <1>5, <1>6, <1>7, <1>8, PromptKept

LEMMA FenceCrossedPrompt ==
  ASSUME Ok, Ok', Prompt, Ordinary, NEW c \in Clients, FenceCrossed(c)
  PROVE  Prompt'
<1> DEFINE k == liveClients[c]
<1>1. k \in Conns /\ Only(k) /\ Same(conn'[k], conn[k])
  BY FenceCrossedOk
<1>2. UNCHANGED <<deployment, member, liveClients>> /\ k # NoConn
  BY DEF FenceCrossed
<1>3. conn[k].id = c /\ c # NoClient
  BY <1>2, GatewayAssumption DEF Ok, Named, LiveNamed
<1> HIDE DEF k
<1>4. conn[k] # NoSocket /\ conn'[k] # NoSocket
  BY <1>1, <1>3, NotNoSocket DEF Same
<1>5. CtxPrompt(conn[k])
  BY <1>1 DEF Prompt
<1>6. /\ CtxPrompt(conn'[k])
      /\ IsOver(conn[k]) => IsOver(conn'[k])
      /\ \A d \in Clients : Used(d, conn'[k]) => Used(d, conn[k])
  BY <1>1, <1>5 DEF CtxPrompt, Excused, IsOver, Used, Same
<1>7. /\ conn'[k].sock \in {"open", "closing"} <=> conn[k].sock \in {"open", "closing"}
      /\ conn'[k].id = conn[k].id /\ conn'[k].interrupted = conn[k].interrupted
      /\ conn'[k].step = conn[k].step
  BY <1>1 DEF Same
<1>8. QED
  BY <1>1, <1>2, <1>4, <1>6, <1>7, PromptKept

LEMMA LocationSettlesPrompt ==
  ASSUME Ok, Ok', Prompt, Ordinary, NEW k \in Conns, LocationSettles(k)
  PROVE  Prompt'
<1>1. /\ Only(k)
      /\ LET y == conn'[k]  x == conn[k]
         IN  /\ y.step = x.step /\ y.sock = x.sock /\ y.token = x.token /\ y.id = x.id
             /\ y.frozen = x.frozen /\ y.inbox = x.inbox /\ y.interrupted = x.interrupted
             /\ y.verifies = x.verifies /\ y.awaits = NoClient
  BY LocationSettlesOk
<1>2. UNCHANGED <<deployment, member, liveClients>> /\ conn[k].awaits # NoClient
  BY DEF LocationSettles
<1>3. CtxNamed(conn[k]) /\ CtxPrompt(conn[k])
  BY DEF Ok, Named, Prompt
<1>4. conn[k] # NoSocket /\ conn'[k] # NoSocket
  <2>1. conn[k].id # NoClient
    BY <1>2, <1>3 DEF CtxNamed
  <2>2. QED
    BY <1>1, <2>1, NotNoSocket
<1>5. CtxPrompt(conn'[k])
  BY <1>1, <1>3 DEF CtxPrompt, Excused
<1>6. ~IsOver(conn[k])
  BY <1>2 DEF IsOver
<1>7. \A c \in Clients : Used(c, conn'[k]) => Used(c, conn[k])
  BY <1>1 DEF Used
<1>8. QED
  BY <1>1, <1>2, <1>4, <1>5, <1>6, <1>7, PromptKept

LEMMA ClosingPrompt ==
  ASSUME Ok, Ok', Prompt, Ordinary, Closing, UNCHANGED <<deployment, member, liveClients>>
  PROVE  Prompt'
<1>1. /\ \A j \in Conns : CtxPrompt(conn[j])
      /\ InOrder /\ Exclusive /\ LiveExcused /\ NewestLive /\ MembersNamed
  BY DEF Prompt
<1>2. ASSUME NEW k \in Conns
      PROVE  LET y == conn'[k]  x == conn[k]
             IN  /\ y.step = x.step /\ y.token = x.token /\ y.id = x.id
                 /\ y.inbox = x.inbox
                 /\ y.awaits = x.awaits /\ y.verifies = x.verifies /\ y.interrupted = x.interrupted
                 /\ y.sock \in {"open", "closing"} <=> x.sock \in {"open", "closing"}
                 /\ y = NoSocket <=> x = NoSocket
  BY ClosingSame DEF Ok
<1>3. \A f : Has(f)' = Has(f)
  BY DEF Has
<1>4. /\ Connected' = Connected
      /\ \A k \in Conns : Excused(conn'[k]) <=> Excused(conn[k])
      /\ \A k \in Conns : IsOver(conn'[k]) <=> IsOver(conn[k])
      /\ \A k \in Conns, c \in Clients : Used(c, conn'[k]) <=> Used(c, conn[k])
  BY <1>2 DEF Connected, Excused, IsOver, Used
<1>5. (\A j \in Conns : CtxPrompt(conn[j]))'
  <2> SUFFICES ASSUME NEW j \in Conns PROVE CtxPrompt(conn[j])'
    OBVIOUS
  <2>1. CtxPrompt(conn[j]) /\ (Excused(conn'[j]) <=> Excused(conn[j]))
    BY <1>1, <1>4
  <2>2. QED
    BY <1>2, <1>3, <2>1 DEF CtxPrompt
<1>6. InOrder'
  BY <1>1, <1>2 DEF InOrder
<1>7. Exclusive'
  BY <1>1, <1>3, <1>4 DEF Exclusive
<1>8. LiveExcused'
  BY <1>1, <1>4, SomeConn DEF LiveExcused, Ok, TypeOK
<1>9. NewestLive'
  BY <1>1, <1>2, <1>3, <1>4 DEF NewestLive, Connected
<1>10. MembersNamed'
  <2> SUFFICES ASSUME NEW c \in Clients, NEW r \in Rooms, member[c][r] # NoConn
               PROVE  /\ Excused(conn'[member[c][r]])
                      /\ member[c][r] \in Connected' => conn'[member[c][r]].id = c
    BY DEF MembersNamed
  <2>1. member[c][r] \in Conns
    BY DEF Ok, TypeOK, MaybeConn
  <2>2. Excused(conn[member[c][r]]) /\ (member[c][r] \in Connected => conn[member[c][r]].id = c)
    BY <1>1 DEF MembersNamed
  <2>3. QED
    BY <1>2, <1>4, <2>1, <2>2
<1>11. QED
  BY <1>5, <1>6, <1>7, <1>8, <1>9, <1>10 DEF Prompt

LEMMA ExitPrompt ==
  ASSUME Ok, Ok', Prompt, Ordinary, Exit
  PROVE  Prompt'
<1>1. /\ \A k \in Conns :
              /\ conn'[k] = NoSocket <=> conn[k] = NoSocket
              /\ conn'[k].step \in {"none", "gone"} /\ conn'[k].sock \in {"none", "closed"}
              /\ conn'[k].id = NoClient /\ conn'[k].token = NoClient /\ conn'[k].verifies = NoClient
              /\ conn'[k].awaits = NoClient /\ conn'[k].inbox = NoFrame
      /\ member' = NoMembers /\ liveClients' = Nobody
  BY ExitOk
<1>2. InOrder
  BY DEF Prompt
<1>3. (\A j \in Conns : CtxPrompt(conn[j]))'
  <2> SUFFICES ASSUME NEW j \in Conns PROVE CtxPrompt(conn[j])'
    OBVIOUS
  <2>1. QED
    BY <1>1 DEF CtxPrompt, NoFrame
<1>4. InOrder'
  BY <1>1, <1>2 DEF InOrder
<1>5. Exclusive'
  BY <1>1, GatewayAssumption DEF Exclusive, Used, NoFrame
<1>6. LiveExcused' /\ MembersNamed'
  BY <1>1 DEF LiveExcused, MembersNamed, Nobody, NoMembers
<1>7. NewestLive'
  BY <1>1 DEF NewestLive, Connected
<1>8. QED
  BY <1>3, <1>4, <1>5, <1>6, <1>7 DEF Prompt

LEMMA ConnectionPrompt ==
  ASSUME Ok, Ok', Prompt, Ordinary, Idle, NEW k \in Conns, NEW c \in Clients, NEW blob \in MaybeState,
         NEW cookie \in BOOLEAN, Connection(k, c, blob, cookie)
  PROVE  Prompt'
<1>1. /\ Only(k)
      /\ conn[k] = NoSocket
      /\ LET y == conn'[k]
         IN  /\ \/ y.step = "auth" /\ y.sock = "open" /\ y.token = c
                \/ y.step = "failed" /\ y.sock = "closing" /\ y.token = NoClient
             /\ y.id = NoClient /\ y.inbox = NoFrame
             /\ y.awaits = NoClient /\ y.verifies = NoClient /\ y.interrupted = FALSE
  BY ConnectionOk
<1>2. /\ \A j \in Conns : j < k => conn[j] # NoSocket
      /\ Free(c, k)
      /\ UNCHANGED <<deployment, member, liveClients>>
  BY DEF Connection
<1>3. /\ \A j \in Conns : CtxPrompt(conn[j])
      /\ InOrder /\ Exclusive /\ LiveExcused /\ NewestLive /\ MembersNamed
  BY DEF Prompt
<1>4. \A j \in Conns : conn[j].step # "auth"
  BY DEF Idle, Urgent, Ordinary
<1>5. \A f : Has(f)' = Has(f)
  BY <1>2 DEF Has
<1>6. (\A j \in Conns : CtxPrompt(conn[j]))'
  <2> SUFFICES ASSUME NEW j \in Conns PROVE CtxPrompt(conn[j])'
    OBVIOUS
  <2>1. CASE j = k
    BY <1>1, <2>1 DEF CtxPrompt, NoFrame
  <2>2. CASE j # k
    BY <1>1, <1>3, <1>5, <2>2 DEF CtxPrompt, Only
  <2>3. QED
    BY <2>1, <2>2
<1>7. conn'[k] # NoSocket
  BY <1>1, NotNoSocket
<1>8. InOrder'
  <2> SUFFICES ASSUME NEW i \in Conns, NEW j \in Conns, i < j, conn'[j] # NoSocket
               PROVE  conn'[i] # NoSocket /\ conn'[i].step # "auth"
    BY DEF InOrder
  <2>1. i \in Nat /\ j \in Nat /\ k \in Nat
    BY GatewayAssumption
  <2>2. CASE j = k
    BY <1>1, <1>2, <1>4, <2>1, <2>2 DEF Only
  <2>3. CASE j # k
    <3>1. conn[j] # NoSocket
      BY <1>1, <2>3 DEF Only
    <3>2. conn[i] # NoSocket /\ conn[i].step # "auth"
      BY <1>3, <3>1 DEF InOrder
    <3>3. i # k
      BY <1>1, <3>2
    <3>4. QED
      BY <1>1, <3>2, <3>3 DEF Only
  <2>4. QED
    BY <2>2, <2>3
<1>9. Exclusive'
  <2>1. \A d \in Clients : Used(d, conn'[k]) => Free(d, k)
    BY <1>1, <1>2, GatewayAssumption DEF Used, NoFrame
  <2>2. ~Has("overlap") =>
          \A d \in Clients, j \in Conns : j # k /\ Used(d, conn[j]) /\ Used(d, conn'[k]) => IsOver(conn[j])
    BY <2>1, FreeCtx
  <2>3. QED
    BY <1>1, <1>3, <1>5, <2>2 DEF Exclusive, Only
<1>10. /\ \A j \in Conns : Excused(conn[j]) => j # k
       /\ \A j \in Conns : Excused(conn[j]) => Excused(conn'[j])
       /\ k \notin Connected /\ \A j \in Conns : j # k => (j \in Connected' <=> j \in Connected)
  BY <1>1, NoSocketType DEF Excused, Only, Connected
<1>11. LiveExcused'
  BY <1>2, <1>3, <1>10, SomeConn DEF LiveExcused, Ok, TypeOK
<1>12. NewestLive'
  <2> SUFFICES ASSUME NEW j \in Connected', conn'[j].id # NoClient,
                      Has("overlap") => \A i \in Conns : i > j => conn'[i].id # conn'[j].id
               PROVE  liveClients'[conn'[j].id] = j
    BY <1>5 DEF NewestLive
  <2>1. j \in Conns /\ j # k /\ j \in Connected
    BY <1>1, <1>10 DEF Connected
  <2>2. conn'[j] = conn[j]
    BY <1>1, <2>1 DEF Only
  <2>3. Has("overlap") => \A i \in Conns : i > j => conn[i].id # conn[j].id
    BY <1>1, <2>2, NoSocketType DEF Only
  <2>4. QED
    BY <1>2, <1>3, <2>1, <2>2, <2>3 DEF NewestLive
<1>13. MembersNamed'
  <2> SUFFICES ASSUME NEW d \in Clients, NEW r \in Rooms, member[d][r] # NoConn
               PROVE  /\ Excused(conn'[member[d][r]])
                      /\ member[d][r] \in Connected' => conn'[member[d][r]].id = d
    BY <1>2 DEF MembersNamed
  <2>1. member[d][r] \in Conns
    BY DEF Ok, TypeOK, MaybeConn
  <2>2. Excused(conn[member[d][r]]) /\ (member[d][r] \in Connected => conn[member[d][r]].id = d)
    BY <1>3 DEF MembersNamed
  <2>3. QED
    BY <1>1, <1>10, <2>1, <2>2 DEF Only
<1>14. QED
  BY <1>6, <1>8, <1>9, <1>11, <1>12, <1>13 DEF Prompt

\* The newest connection of an id is the one that authenticates.
LEMMA AuthSucceedsPrompt ==
  ASSUME Ok, Ok', Prompt, Ordinary, NEW k \in Conns, AuthSucceeds(k)
  PROVE  Prompt'
<1> DEFINE c == conn[k].token
<1>1. /\ Only(k)
      /\ conn[k].step = "auth" /\ c \in Clients /\ conn[k].id = NoClient
      /\ liveClients' = [liveClients EXCEPT ![c] = k]
      /\ Joined(k, c)
      /\ LET y == conn'[k]  x == conn[k]
         IN  /\ y.step \in {"load", "ready"} /\ y.token = NoClient /\ y.id = x.token
             /\ y.sock = x.sock /\ y.frozen = x.frozen /\ y.inbox = x.inbox
             /\ y.awaits = x.awaits /\ y.verifies = x.verifies /\ y.interrupted = x.interrupted
      /\ deployment' = deployment
  BY AuthSucceedsOk
<1>2. /\ \A j \in Conns : CtxPrompt(conn[j])
      /\ InOrder /\ Exclusive /\ LiveExcused /\ NewestLive /\ MembersNamed
  BY DEF Prompt
<1>3. conn[k].sock \in {"open", "closing"} /\ Excused(conn[k]) /\ Excused(conn'[k]) /\ k \in Connected
  BY <1>1, <1>2 DEF CtxPrompt, Excused, Connected
<1>4. conn[k].inbox = NoFrame /\ conn[k].verifies = NoClient /\ c # NoClient
  BY <1>1, <1>2, GatewayAssumption DEF CtxPrompt
<1>5. \A f : Has(f)' = Has(f)
  BY <1>1 DEF Has
<1>6. conn[k] # NoSocket /\ conn'[k] # NoSocket
  BY <1>1, NotNoSocket
<1>7. CtxPrompt(conn'[k])
  BY <1>1, <1>3, <1>4 DEF CtxPrompt, NoFrame
<1>8. (\A j \in Conns : CtxPrompt(conn[j]))'
  BY <1>1, <1>2, <1>5, <1>7 DEF Only, CtxPrompt
<1>9. InOrder'
  BY <1>1, <1>2, <1>6, InOrderKept
<1>10. Exclusive'
  <2>1. \A d \in Clients : Used(d, conn'[k]) => Used(d, conn[k])
    BY <1>1, <1>4, GatewayAssumption DEF Used, NoFrame
  <2>2. ~IsOver(conn[k])
    BY <1>3 DEF IsOver
  <2>3. QED
    BY <1>1, <1>2, <2>1, <2>2, ExclusiveKept
<1>11. /\ \A j \in Conns : Excused(conn'[j]) <=> Excused(conn[j])
       /\ Connected' = Connected
  BY <1>1 DEF Excused, Only, Connected
<1>12. LiveExcused'
  <2> SUFFICES ASSUME NEW d \in Clients, liveClients'[d] # NoConn
               PROVE  Excused(conn'[liveClients'[d]])
    BY DEF LiveExcused
  <2>1. CASE d = c
    BY <1>1, <1>3, <2>1 DEF Ok, TypeOK
  <2>2. CASE d # c
    <3>1. liveClients'[d] = liveClients[d]
      BY <1>1, <2>2 DEF Ok, TypeOK
    <3>2. QED
      BY <1>2, <1>11, <3>1, SomeConn DEF LiveExcused, Ok, TypeOK
  <2>3. QED
    BY <2>1, <2>2
<1>13. NewestLive'
  <2> SUFFICES ASSUME NEW j \in Connected', conn'[j].id # NoClient,
                      Has("overlap") => \A i \in Conns : i > j => conn'[i].id # conn'[j].id
               PROVE  liveClients'[conn'[j].id] = j
    BY <1>5 DEF NewestLive
  <2>1. j \in Conns /\ j \in Connected /\ k \in Nat /\ j \in Nat
    BY <1>11, GatewayAssumption DEF Connected
  <2>2. CASE j = k
    BY <1>1, <2>2 DEF Ok, TypeOK
  <2>3. CASE j # k
    <3>1. conn'[j] = conn[j] /\ conn[j].id \in Clients
      <4>1. conn'[j] = conn[j]
        BY <1>1, <2>1, <2>3 DEF Only
      <4>2. QED
        BY <2>1, <4>1 DEF Ok, TypeOK, Ctx, Ids
    <3>2. conn[j].id # c
      <4>1. CASE Has("overlap")
        <5>1. conn[j] # NoSocket
          BY <3>1, NotNoSocket, GatewayAssumption
        <5>2. ~(k < j)
          BY <1>1, <1>2, <2>1, <5>1 DEF InOrder
        <5>3. k > j
          BY <2>1, <2>3, <5>2
        <5>4. QED
          BY <1>1, <3>1, <4>1, <5>3
      <4>2. CASE ~Has("overlap")
        <5>1. ~IsOver(conn[j]) /\ ~IsOver(conn[k])
          BY <1>3, <2>1 DEF IsOver, Connected
        <5>2. ~Used(c, conn[j])
          BY <1>1, <1>2, <2>1, <2>3, <4>2, <5>1 DEF Exclusive, Used
        <5>3. QED
          BY <5>2 DEF Used
      <4>3. QED
        BY <4>1, <4>2
    <3>3. Has("overlap") => \A i \in Conns : i > j => conn[i].id # conn[j].id
      BY <1>1, <3>1, GatewayAssumption DEF Only
    <3>4. liveClients[conn[j].id] = j
      BY <1>2, <2>1, <3>1, <3>3, GatewayAssumption DEF NewestLive
    <3>5. QED
      BY <1>1, <3>1, <3>2, <3>4 DEF Ok, TypeOK
  <2>4. QED
    BY <2>2, <2>3
<1>14. MembersNamed'
  <2> SUFFICES ASSUME NEW d \in Clients, NEW r \in Rooms, member'[d][r] # NoConn
               PROVE  /\ Excused(conn'[member'[d][r]])
                      /\ member'[d][r] \in Connected' => conn'[member'[d][r]].id = d
    BY DEF MembersNamed
  <2>1. CASE member'[d][r] = member[d][r]
    <3>1. member[d][r] \in Conns
      BY <2>1 DEF Ok, TypeOK, MaybeConn
    <3>2. Excused(conn[member[d][r]]) /\ (member[d][r] \in Connected => conn[member[d][r]].id = d)
      BY <1>2, <2>1 DEF MembersNamed
    <3>3. member[d][r] # k
      BY <1>1, <1>3, <3>2, GatewayAssumption
    <3>4. QED
      BY <1>1, <1>11, <2>1, <3>1, <3>2, <3>3 DEF Only
  <2>2. CASE d = c /\ member'[d][r] = k
    BY <1>1, <1>3, <2>2
  <2>3. QED
    BY <1>1, <2>1, <2>2 DEF Joined
<1>15. QED
  BY <1>8, <1>9, <1>10, <1>12, <1>13, <1>14 DEF Prompt

\* A refresh: no other connection that is not over has the old or the new id.
LEMMA RefreshSettlesPrompt ==
  ASSUME Ok, Ok', Prompt, Ordinary, NEW k \in Conns, RefreshSettles(k)
  PROVE  Prompt'
<1> DEFINE x == conn[k]
           y == conn'[k]
           old == x.id
           new == x.verifies
<1>1. /\ Only(k) /\ old \in Clients /\ new \in Clients /\ deployment' = deployment
      /\ y.step = x.step /\ y.sock = x.sock /\ y.token = x.token
      /\ y.frozen = x.frozen /\ y.inbox = x.inbox /\ y.interrupted = x.interrupted
      /\ y.verifies = NoClient /\ y.awaits = x.awaits
      /\ \/ y.id = x.id /\ UNCHANGED <<member, liveClients>>
         \/ /\ x.id # x.verifies /\ y.id = x.verifies
            /\ member' = MembersMoved(x.id, x.verifies)
            /\ liveClients' = [liveClients EXCEPT ![x.verifies] = k, ![x.id] = LiveWithout(x.id, k)]
  BY RefreshSettlesOk
<1>2. /\ \A j \in Conns : CtxPrompt(conn[j])
      /\ InOrder /\ Exclusive /\ LiveExcused /\ NewestLive /\ MembersNamed
  BY DEF Prompt
<1>3. new # NoClient /\ old # NoClient
  BY <1>1, GatewayAssumption
<1>4. x.step = "ready" /\ Excused(x) /\ Has("refresh")
  BY <1>2, <1>3 DEF CtxPrompt
<1>5. ~Has("overlap")
  BY <1>4 DEF Ordinary, SharedRefresh
<1>6. x # NoSocket /\ y # NoSocket
  BY <1>1, <1>4, NotNoSocket
<1>7. Excused(y) /\ (k \in Connected' <=> k \in Connected)
  BY <1>1, <1>4 DEF Excused, Connected
<1>8. CtxPrompt(y)
  BY <1>1, <1>2, <1>4, <1>7 DEF CtxPrompt
<1>9. ~IsOver(x)
  BY <1>3 DEF IsOver
<1>10. \A c \in Clients : Used(c, y) => Used(c, x)
  BY <1>1, GatewayAssumption DEF Used
<1>11. CASE y.id = x.id /\ UNCHANGED <<member, liveClients>>
  BY <1>1, <1>4, <1>6, <1>8, <1>9, <1>10, <1>11, PromptKept
<1>12. CASE /\ old # new /\ y.id = new
            /\ member' = MembersMoved(old, new)
            /\ liveClients' = [liveClients EXCEPT ![new] = k, ![old] = LiveWithout(old, k)]
  <2> HIDE DEF x, y
  <2>1. \A f : Has(f)' = Has(f)
    BY <1>1 DEF Has
  <2>2. InOrder' /\ Exclusive'
    BY <1>1, <1>2, <1>4, <1>6, <1>9, <1>10, InOrderKept, ExclusiveKept DEF x, y
  <2>3. (\A j \in Conns : CtxPrompt(conn[j]))'
    <3> SUFFICES ASSUME NEW j \in Conns PROVE CtxPrompt(conn[j])'
      OBVIOUS
    <3>1. CASE j = k
      BY <1>8, <2>1, <3>1 DEF CtxPrompt, y
    <3>2. CASE j # k
      BY <1>1, <1>2, <2>1, <3>2 DEF CtxPrompt, Only
    <3>3. QED
      BY <3>1, <3>2
  <2>4. ASSUME NEW j \in Conns, j # k, j \in Connected
        PROVE  conn[j].id # old /\ conn[j].id # new
    <3>1. ~IsOver(conn[j])
      BY <2>4 DEF IsOver, Connected
    <3>2. ~Used(old, conn[j]) /\ ~Used(new, conn[j])
      BY <1>1, <1>2, <1>5, <1>9, <2>4, <3>1 DEF Exclusive, Used, x
    <3>3. QED
      BY <3>2 DEF Used
  <2>5. /\ liveClients'[new] = k
        /\ liveClients'[old] = LiveWithout(old, k)
        /\ \A d \in Clients : d # old /\ d # new => liveClients'[d] = liveClients[d]
    BY <1>1, <1>12 DEF Ok, TypeOK
  <2>6. \A j \in Conns : j # k => conn'[j] = conn[j]
    BY <1>1 DEF Only
  <2>7. \A j \in Conns : Excused(conn'[j]) <=> Excused(conn[j])
    BY <1>4, <1>7, <2>6 DEF x, y
  <2>8. Connected' = Connected
    BY <1>7, <2>6 DEF Connected
  <2>9. LiveExcused'
    <3> SUFFICES ASSUME NEW d \in Clients, liveClients'[d] # NoConn
                 PROVE  Excused(conn'[liveClients'[d]])
      BY DEF LiveExcused
    <3>1. CASE liveClients'[d] = k
      BY <1>7, <3>1 DEF y
    <3>2. CASE liveClients'[d] # k
      <4>1. liveClients'[d] = liveClients[d]
        BY <2>5, <3>2 DEF LiveWithout
      <4>2. QED
        BY <1>2, <2>7, <4>1, SomeConn DEF LiveExcused, Ok, TypeOK
    <3>3. QED
      BY <3>1, <3>2
  <2>10. NewestLive'
    <3> SUFFICES ASSUME NEW j \in Connected', conn'[j].id # NoClient
                 PROVE  liveClients'[conn'[j].id] = j
      BY DEF NewestLive
    <3>1. j \in Conns /\ j \in Connected
      BY <2>8 DEF Connected
    <3>2. CASE j = k
      BY <1>12, <2>5, <3>2 DEF y
    <3>3. CASE j # k
      <4>1. conn'[j] = conn[j] /\ conn[j].id # old /\ conn[j].id # new
        BY <2>4, <2>6, <3>1, <3>3
      <4>2. conn[j].id \in Clients
        BY <3>1, <4>1 DEF Ok, TypeOK, Ctx, Ids
      <4>3. liveClients[conn[j].id] = j
        BY <1>2, <1>5, <3>1, <4>1 DEF NewestLive
      <4>4. QED
        BY <2>5, <4>1, <4>2, <4>3
    <3>4. QED
      BY <3>2, <3>3
  <2>11. MembersNamed'
    <3> SUFFICES ASSUME NEW d \in Clients, NEW r \in Rooms, member'[d][r] # NoConn
                 PROVE  /\ Excused(conn'[member'[d][r]])
                        /\ member'[d][r] \in Connected' => conn'[member'[d][r]].id = d
      BY DEF MembersNamed
    <3>1. \A c \in Clients : member[c][r] # NoConn =>
            /\ member[c][r] \in Conns /\ Excused(conn[member[c][r]])
            /\ member[c][r] \in Connected => conn[member[c][r]].id = c
      BY <1>2 DEF MembersNamed, Ok, TypeOK, MaybeConn
    <3>2. CASE d = old
      BY <1>1, <1>12, <3>2 DEF MembersMoved, Ok, TypeOK
    <3>3. CASE d = new /\ member[old][r] # NoConn
      <4>1. member'[d][r] = member[old][r]
        BY <1>1, <1>12, <3>3 DEF MembersMoved, Ok, TypeOK
      <4>2. CASE member[old][r] = k
        BY <1>7, <1>12, <3>3, <4>1, <4>2 DEF y
      <4>3. CASE member[old][r] # k
        <5>1. member[old][r] \notin Connected
          BY <1>1, <2>4, <3>1, <3>3, <4>3
        <5>2. QED
          BY <1>1, <2>7, <2>8, <3>1, <3>3, <4>1, <5>1
      <4>4. QED
        BY <4>2, <4>3
    <3>4. CASE d # old /\ ~(d = new /\ member[old][r] # NoConn)
      <4>1. member'[d][r] = member[d][r]
        BY <1>1, <1>12, <3>4 DEF MembersMoved, Ok, TypeOK
      <4>2. CASE member[d][r] = k
        <5>1. k \in Connected => old = d
          BY <3>1, <4>1, <4>2 DEF x
        <5>2. QED
          BY <1>7, <2>8, <3>4, <4>1, <4>2, <5>1 DEF y
      <4>3. CASE member[d][r] # k
        BY <2>6, <2>7, <2>8, <3>1, <4>1, <4>3
      <4>4. QED
        BY <4>2, <4>3
    <3>5. QED
      BY <3>2, <3>3, <3>4
  <2>12. QED
    BY <2>2, <2>3, <2>9, <2>10, <2>11 DEF Prompt
<1>13. QED
  BY <1>1, <1>11, <1>12

\* At a close no settled promise of the connection is left, except while it resumes.
LEMMA ClosePrompt ==
  ASSUME Ok, Ok', Prompt, Ordinary, Idle, NEW k \in Conns, Close(k)
  PROVE  Prompt'
<1> DEFINE x == conn[k]
           y == conn'[k]
<1>1. /\ Only(k) /\ deployment' = deployment
      /\ y.step = x.step /\ y.sock = "closed" /\ y.token = x.token /\ y.id = x.id
      /\ y.inbox = x.inbox /\ y.verifies = x.verifies /\ y.awaits = x.awaits
      /\ y.interrupted = (x.step \in {"auth", "load"})
      /\ IF x.id = NoClient THEN UNCHANGED <<member, liveClients>>
         ELSE /\ liveClients' = [liveClients EXCEPT ![x.id] = LiveWithout(x.id, k)]
              /\ member' = [member EXCEPT ![x.id] = [r \in Rooms |-> NoConn]]
  BY CloseOk
<1>2. /\ \A j \in Conns : CtxPrompt(conn[j])
      /\ InOrder /\ Exclusive /\ LiveExcused /\ NewestLive /\ MembersNamed
  BY DEF Prompt
<1>3. k \in Connected /\ x.sock \in {"open", "closing"} /\ x.id \in Ids
  BY DEF Close, Connected, Ok, TypeOK, Ctx
<1>4. x.step # "auth" /\ x.verifies = NoClient /\ (x.inbox # NoFrame => x.step = "load")
  BY <1>2 DEF Idle, Urgent, Ordinary, CtxPrompt
<1>5. x # NoSocket /\ y # NoSocket
  <2>1. x.sock # "none" /\ y.sock # "none"
    BY <1>1, <1>3
  <2>2. NoSocket.sock = "none"
    BY NoSocketType
  <2>3. QED
    BY <2>1, <2>2
<1> HIDE DEF x, y
<1>6. \A f : Has(f)' = Has(f)
  BY <1>1 DEF Has
<1>7. \A j \in Conns : j # k => conn'[j] = conn[j]
  BY <1>1 DEF Only
<1>8. (\A j \in Conns : CtxPrompt(conn[j]))'
  <2> SUFFICES ASSUME NEW j \in Conns PROVE CtxPrompt(conn[j])'
    OBVIOUS
  <2>1. CASE j = k
    <3>1. CtxPrompt(x)
      BY <1>2 DEF x
    <3>2. x.step = "load" => y.interrupted
      BY <1>1
    <3>3. CtxPrompt(y)
      BY <1>1, <1>4, <3>1, <3>2 DEF CtxPrompt, Excused
    <3>4. QED
      BY <1>6, <2>1, <3>3 DEF CtxPrompt, y
  <2>2. CASE j # k
    BY <1>2, <1>6, <1>7, <2>2 DEF CtxPrompt
  <2>3. QED
    BY <2>1, <2>2
<1>9. InOrder'
  BY <1>1, <1>2, <1>4, <1>5, InOrderKept DEF x, y
<1>10. Exclusive'
  <2>1. \A c \in Clients : Used(c, y) => Used(c, x)
    BY <1>1 DEF Used
  <2>2. ~IsOver(x)
    BY <1>3 DEF IsOver
  <2>3. QED
    BY <1>1, <1>2, <2>1, <2>2, ExclusiveKept DEF x, y
<1>11. k \notin Connected' /\ \A j \in Conns : j # k => (j \in Connected' <=> j \in Connected)
  BY <1>1, <1>7 DEF Connected, y
<1>12. ASSUME NEW c \in Clients, liveClients'[c] # NoConn
       PROVE  liveClients'[c] = liveClients[c] /\ liveClients'[c] \in Conns /\ liveClients'[c] # k
  <2>1. liveClients'[c] = liveClients[c]
    BY <1>1, <1>12 DEF LiveWithout, Ok, TypeOK
  <2>2. liveClients[c] \in Conns /\ conn[liveClients[c]].id = c
    BY <1>12, <2>1, SomeConn DEF Ok, TypeOK, Named, LiveNamed
  <2>3. ASSUME liveClients[c] = k PROVE FALSE
    <3>1. x.id = c /\ x.id # NoClient
      BY <2>2, <2>3, GatewayAssumption DEF x
    <3>2. liveClients'[c] = NoConn
      BY <1>1, <2>3, <3>1 DEF LiveWithout, Ok, TypeOK
    <3>3. QED
      BY <1>12, <3>2
  <2>4. QED
    BY <2>1, <2>2, <2>3
<1>13. LiveExcused'
  BY <1>2, <1>7, <1>12 DEF LiveExcused
<1>14. NewestLive'
  <2> SUFFICES ASSUME NEW j \in Connected', conn'[j].id # NoClient,
                      Has("overlap") => \A i \in Conns : i > j => conn'[i].id # conn'[j].id
               PROVE  liveClients'[conn'[j].id] = j
    BY <1>6 DEF NewestLive
  <2>1. j \in Conns /\ j # k /\ j \in Connected /\ conn'[j] = conn[j]
    BY <1>7, <1>11 DEF Connected
  <2>2. \A i \in Conns : conn'[i].id = conn[i].id
    BY <1>1, <1>7 DEF x, y
  <2>3. conn[j].id \in Clients
    BY <2>1 DEF Ok, TypeOK, Ctx, Ids
  <2>4. liveClients[conn[j].id] = j
    BY <1>2, <2>1, <2>2, GatewayAssumption DEF NewestLive
  <2>5. QED
    BY <1>1, <2>1, <2>3, <2>4 DEF LiveWithout, Ok, TypeOK
<1>15. MembersNamed'
  <2> SUFFICES ASSUME NEW d \in Clients, NEW r \in Rooms, member'[d][r] # NoConn
               PROVE  /\ Excused(conn'[member'[d][r]])
                      /\ member'[d][r] \in Connected' => conn'[member'[d][r]].id = d
    BY DEF MembersNamed
  <2>1. member'[d][r] = member[d][r] /\ (x.id # NoClient => d # x.id)
    BY <1>1, <1>3 DEF Ok, TypeOK, Ids
  <2>2. /\ member[d][r] \in Conns /\ Excused(conn[member[d][r]])
        /\ member[d][r] \in Connected => conn[member[d][r]].id = d
    BY <1>2, <2>1 DEF MembersNamed, Ok, TypeOK, MaybeConn
  <2>3. member[d][r] # k
    BY <1>3, <2>1, <2>2, GatewayAssumption DEF x
  <2>4. QED
    BY <1>7, <1>11, <2>1, <2>2, <2>3
<1>16. QED
  BY <1>8, <1>9, <1>10, <1>13, <1>14, <1>15 DEF Prompt

LEMMA DeploymentKept == [Next]_vars => deployment' = deployment
<1> SUFFICES ASSUME [Next]_vars PROVE deployment' = deployment
  OBVIOUS
<1>1. ASSUME NEW k \in Conns, AuthFails(k) \/ AuthSucceeds(k) \/ RefreshSettles(k) \/ HandleWaiting(k)
      PROVE  deployment' = deployment
  BY <1>1 DEF AuthFails, AuthSucceeds, RefreshSettles, HandleWaiting
<1>2. ASSUME NEW k \in Conns, NEW c \in deployment.clients, NEW blob \in Blobs, NEW cookie \in BOOLEAN,
             Connection(k, c, blob, cookie)
      PROVE  deployment' = deployment
  BY <1>2 DEF Connection
<1>3. ASSUME NEW k \in Conns, LoadSettles(k) \/ LocationSettles(k) \/ Close(k)
      PROVE  deployment' = deployment
  BY <1>3 DEF LoadSettles, LocationSettles, Close
<1>4. ASSUME NEW k \in Conns, NEW f \in Frames, FrameWaits(k, f) \/ HandleFrame(k, f)
      PROVE  deployment' = deployment
  BY <1>4 DEF FrameWaits, HandleFrame
<1>5. ASSUME NEW c \in Clients, FenceCrossed(c) \/ TimerFires(c) \/ MigrateClient(c)
      PROVE  deployment' = deployment
  BY <1>5 DEF FenceCrossed, TimerFires, MigrateClient
<1>6. ASSUME NEW ok \in BOOLEAN, SaveSettles(ok)
      PROVE  deployment' = deployment
  BY <1>6 DEF SaveSettles
<1>7. CASE Signal \/ Notify \/ Drain \/ CloseConnections \/ Restart
  BY <1>7 DEF Signal, Notify, Drain, CloseConnections, Restart
<1>8. CASE WssCloses \/ ForceExit \/ Crash
  BY <1>8 DEF WssCloses, ForceExit, Crash, Exit
<1>9. CASE UNCHANGED vars
  BY <1>9 DEF vars
<1>10. QED
  BY <1>1, <1>2, <1>3, <1>4, <1>5, <1>6, <1>7, <1>8, <1>9 DEF Next, Event

LEMMA InitPrompt == Init => Prompt
<1> SUFFICES ASSUME Init PROVE Prompt
  OBVIOUS
<1>1. \A k \in Conns : conn[k] = NoSocket
  BY DEF Init
<1>2. \A k \in Conns : CtxPrompt(conn[k])
  BY <1>1, NoSocketType DEF CtxPrompt, NoFrame
<1>3. InOrder
  BY <1>1 DEF InOrder
<1>4. Exclusive
  BY <1>1, NoSocketType DEF Exclusive, IsOver
<1>5. LiveExcused /\ MembersNamed
  BY DEF Init, LiveExcused, MembersNamed, Nobody, NoMembers
<1>6. NewestLive
  BY <1>1, NoSocketType DEF NewestLive, Connected
<1>7. QED
  BY <1>2, <1>3, <1>4, <1>5, <1>6 DEF Prompt

LEMMA UnchangedPrompt ==
  ASSUME Ok, Prompt, UNCHANGED <<deployment, conn, member, liveClients>>
  PROVE  Prompt'
BY DEF Prompt, Ordinary, SharedRefresh, Has, CtxPrompt, InOrder, Exclusive, LiveExcused, NewestLive, MembersNamed, Connected

LEMMA NextPrompt == Ok /\ Prompt /\ [Next]_vars => Prompt'
<1> SUFFICES ASSUME Ok, Prompt, [Next]_vars PROVE Prompt'
  OBVIOUS
<1>1. Ok' /\ deployment' = deployment
  BY NextOk, DeploymentKept
<1>2. Ordinary' <=> Ordinary
  BY <1>1 DEF Ordinary, SharedRefresh, Has
<1>3. CASE ~Ordinary
  BY <1>2, <1>3 DEF Prompt
<1>4. CASE Ordinary
  <2>1. deployment.clients \subseteq Clients /\ Blobs \subseteq MaybeState
    BY BlobsTyped
  <2>2. ASSUME NEW k \in Conns, AuthFails(k) \/ AuthSucceeds(k) \/ RefreshSettles(k) \/ HandleWaiting(k)
        PROVE  Prompt'
    BY <1>1, <1>4, <2>2, AuthFailsPrompt, AuthSucceedsPrompt, RefreshSettlesPrompt, HandleWaitingPrompt
  <2>3. ASSUME Idle, NEW k \in Conns, NEW c \in deployment.clients, NEW blob \in Blobs,
               NEW cookie \in BOOLEAN, Connection(k, c, blob, cookie)
        PROVE  Prompt'
    <3>1. c \in Clients /\ blob \in MaybeState
      BY <2>1 DEF MaybeState
    <3>2. QED
      BY <1>1, <1>4, <2>3, <3>1, ConnectionPrompt
  <2>4. ASSUME Idle, NEW k \in Conns, LoadSettles(k) \/ LocationSettles(k) \/ Close(k)
        PROVE  Prompt'
    BY <1>1, <1>4, <2>4, LoadSettlesPrompt, LocationSettlesPrompt, ClosePrompt
  <2>5. ASSUME NEW k \in Conns, NEW f \in Frames, FrameWaits(k, f) \/ HandleFrame(k, f)
        PROVE  Prompt'
    BY <1>1, <1>4, <2>5, FrameWaitsPrompt, HandleFramePrompt
  <2>6. ASSUME NEW c \in Clients, FenceCrossed(c) \/ TimerFires(c) \/ MigrateClient(c)
        PROVE  Prompt'
    <3>1. CASE FenceCrossed(c)
      BY <1>1, <1>4, <3>1, FenceCrossedPrompt
    <3>2. CASE TimerFires(c) \/ MigrateClient(c)
      BY <3>2, UnchangedPrompt DEF TimerFires, MigrateClient
    <3>3. QED
      BY <2>6, <3>1, <3>2
  <2>7. ASSUME NEW ok \in BOOLEAN, SaveSettles(ok)
        PROVE  Prompt'
    BY <1>1, <1>4, <2>7, SaveSettlesOk, ClosingPrompt
  <2>8. CASE Signal \/ Drain \/ Restart \/ Notify
    BY <2>8, UnchangedPrompt DEF Signal, Drain, Restart, Notify
  <2>9. CASE CloseConnections
    BY <1>1, <1>4, <2>9, CloseConnectionsOk, ClosingPrompt
  <2>10. CASE WssCloses \/ ForceExit \/ Crash
    BY <1>1, <1>4, <2>10, ExitPrompt DEF WssCloses, ForceExit, Crash
  <2>11. CASE UNCHANGED vars
    BY <2>11, UnchangedPrompt DEF vars
  <2>12. QED
    BY <2>2, <2>3, <2>4, <2>5, <2>6, <2>7, <2>8, <2>9, <2>10, <2>11 DEF Next, Event
<1>5. QED
  BY <1>3, <1>4

-------------------------------------------------------------------------------
(* Handed blobs *)

LEMMA CaptureOwned ==
  ASSUME NEW contexts \in [Conns -> Ctx], FrozenNamed(contexts), NEW k \in Conns, NEW m
  PROVE  CaptureState(contexts[k], m).clientId = contexts[k].id
BY DEF FrozenNamed, CaptureState

LEMMA AppendOwned ==
  ASSUME NEW q \in Seq(Calls), NEW e \in Calls, NEW contexts, CallsOwned(q, contexts),
         e.by \in {"migrate_flush", "migrate"} => contexts[e.conn].id = e.client,
         e.by \in {"migrate", "all"} => e.state.clientId = e.client
  PROVE  CallsOwned(Append(q, e), contexts)
<1>1. /\ Len(Append(q, e)) = Len(q) + 1 /\ Len(q) \in Nat
      /\ Append(q, e)[Len(q) + 1] = e
      /\ \A i \in 1 .. Len(q) : Append(q, e)[i] = q[i]
  OBVIOUS
<1>2. \A i \in 1 .. Len(q) + 1 : i \in 1 .. Len(q) \/ i = Len(q) + 1
  BY <1>1
<1>3. QED
  BY <1>1, <1>2 DEF CallsOwned

LEMMA FlushOwned ==
  ASSUME NEW q \in Seq(Calls), NEW c \in Clients, NEW s \in State, NEW contexts, CallsOwned(q, contexts)
  PROVE  CallsOwned(Append(q, Call(c, s, "flush", NoConn)), contexts)
<1>1. NoConn \in MaybeConn
  BY DEF MaybeConn
<1>2. Call(c, s, "flush", NoConn) \in Calls /\ Call(c, s, "flush", NoConn).by = "flush"
  BY <1>1, CallType
<1>3. QED
  BY <1>2, AppendOwned

\* What a step of one connection keeps.
LEMMA ContextsHandable ==
  ASSUME Ok, Handable, ~Has("refresh"), NEW k \in Conns, Only(k),
         conn[k].id # NoClient => conn'[k].id = conn[k].id,
         conn'[k].verifies = NoClient, conn'[k].inbox.type # "refresh",
         conn'[k].frozen # NoState => conn'[k].frozen.clientId = conn'[k].id
  PROVE  /\ \A j \in Conns : conn'[j].verifies = NoClient /\ conn'[j].inbox.type # "refresh"
         /\ FrozenNamed(conn')
         /\ CallsOwned(calls, conn')
<1>1. \A j \in Conns : j # k => conn'[j] = conn[j]
  BY DEF Only
<1>2. /\ \A j \in Conns : conn[j].verifies = NoClient /\ conn[j].inbox.type # "refresh"
      /\ FrozenNamed(conn) /\ CallsOwned(calls, conn)
  BY DEF Handable
<1>3. \A j \in Conns : conn'[j].verifies = NoClient /\ conn'[j].inbox.type # "refresh"
  BY <1>1, <1>2
<1>4. FrozenNamed(conn')
  BY <1>1, <1>2 DEF FrozenNamed
<1>5. CallsOwned(calls, conn')
  <2> SUFFICES ASSUME NEW i \in 1 .. Len(calls), calls[i].by \in {"migrate_flush", "migrate"}
               PROVE  conn'[calls[i].conn].id = calls[i].client
    BY <1>2 DEF CallsOwned
  <2>1. calls[i] \in Calls /\ calls[i].conn # NoConn
    BY DEF Ok, TypeOK, Named, CallsNamed
  <2>2. calls[i].conn \in Conns /\ calls[i].client \in Clients /\ calls[i].client # NoClient
    BY <2>1, GatewayAssumption DEF Calls, MaybeConn
  <2>3. conn[calls[i].conn].id = calls[i].client
    BY <1>2 DEF CallsOwned
  <2>4. QED
    BY <1>1, <2>2, <2>3
<1>6. QED
  BY <1>3, <1>4, <1>5

LEMMA OneHandable ==
  ASSUME Ok, Handable, ~Has("refresh"), NEW k \in Conns, Only(k),
         conn[k].id # NoClient => conn'[k].id = conn[k].id,
         conn'[k].verifies = NoClient, conn'[k].inbox.type # "refresh",
         conn'[k].frozen # NoState => conn'[k].frozen.clientId = conn'[k].id,
         UNCHANGED <<calls, store, handed, saving>>
  PROVE  Handable'
<1>1. /\ \A j \in Conns : conn'[j].verifies = NoClient /\ conn'[j].inbox.type # "refresh"
      /\ FrozenNamed(conn')
      /\ CallsOwned(calls, conn')
  BY ContextsHandable
<1>2. BlobsStored(saving.blobs, store) /\ HandedStored(handed, store)
  BY DEF Handable
<1>3. QED
  BY <1>1, <1>2 DEF Handable

LEMMA HandlersHandable ==
  ASSUME Ok, Handable, ~Has("refresh"), NEW k \in Conns,
         AuthFails(k) \/ AuthSucceeds(k) \/ RefreshSettles(k) \/ HandleWaiting(k)
           \/ LoadSettles(k) \/ LocationSettles(k)
           \/ \E f \in Frames : FrameWaits(k, f) \/ HandleFrame(k, f)
  PROVE  Handable'
<1> DEFINE x == conn[k]
           y == conn'[k]
<1>1. /\ x.verifies = NoClient /\ x.inbox.type # "refresh"
      /\ x.frozen # NoState => x.frozen.clientId = x.id
      /\ x \in Ctx
  BY DEF Handable, FrozenNamed, Ok, TypeOK
<1>2. CASE AuthFails(k)
  <2>1. UNCHANGED <<calls, store, handed, saving>>
    BY <1>2 DEF AuthFails, sessionVars
  <2>2. Only(k) /\ y.id = x.id /\ y.frozen = x.frozen /\ y.inbox = x.inbox /\ y.verifies = x.verifies
    BY <1>2, AuthFailsOk
  <2>3. QED
    BY <1>1, <2>1, <2>2, OneHandable
<1>3. CASE AuthSucceeds(k)
  <2>1. /\ Only(k) /\ x.id = NoClient
        /\ y.frozen = x.frozen /\ y.inbox = x.inbox /\ y.verifies = x.verifies
        /\ UNCHANGED <<calls, store, handed, saving>>
    BY <1>3, AuthSucceedsOk
  <2>2. x.frozen = NoState
    BY <1>1, <2>1, GatewayAssumption DEF Ctx, MaybeState, State
  <2>3. QED
    BY <1>1, <2>1, <2>2, OneHandable
<1>4. CASE RefreshSettles(k)
  BY <1>1, <1>4 DEF RefreshSettles
<1>5. CASE HandleWaiting(k)
  <2>1. UNCHANGED <<calls, store, handed, saving>>
    BY <1>5 DEF HandleWaiting
  <2>2. Only(k) /\ y.id = x.id /\ y.frozen = x.frozen /\ y.inbox = NoFrame /\ y.verifies = NoClient
    BY <1>1, <1>5, HandleWaitingOk
  <2>3. y.inbox.type # "refresh"
    BY <2>2 DEF NoFrame
  <2>4. QED
    BY <1>1, <2>1, <2>2, <2>3, OneHandable
<1>6. CASE LoadSettles(k)
  <2>1. /\ Only(k) /\ y.id = x.id
        /\ y.frozen = x.frozen /\ y.inbox = x.inbox /\ y.verifies = x.verifies
        /\ UNCHANGED <<calls, store, handed, saving>>
    BY <1>6, LoadSettlesOk
  <2>2. QED
    BY <1>1, <2>1, OneHandable
<1>7. CASE LocationSettles(k)
  <2>1. /\ Only(k) /\ y.id = x.id
        /\ y.frozen = x.frozen /\ y.inbox = x.inbox /\ y.verifies = x.verifies
        /\ UNCHANGED <<calls, store, handed, saving>>
    BY <1>7, LocationSettlesOk DEF LocationSettles
  <2>2. QED
    BY <1>1, <2>1, OneHandable
<1>8. ASSUME NEW f \in Frames, FrameWaits(k, f)
      PROVE  Handable'
  <2>1. f.type # "refresh" /\ UNCHANGED <<calls, store, handed, saving>>
    BY <1>8 DEF FrameWaits, MayReceive, sessionVars
  <2>2. Only(k) /\ y.id = x.id /\ y.frozen = x.frozen /\ y.inbox = f /\ y.verifies = x.verifies
    BY <1>8, FrameWaitsOk
  <2>3. QED
    BY <1>1, <2>1, <2>2, OneHandable
<1>9. ASSUME NEW f \in Frames, HandleFrame(k, f)
      PROVE  Handable'
  <2>1. f.type # "refresh" /\ UNCHANGED <<calls, store, handed, saving>>
    BY <1>9 DEF HandleFrame, MayReceive
  <2>2. Only(k) /\ y.id = x.id /\ y.frozen = x.frozen /\ y.inbox = x.inbox /\ y.verifies = x.verifies
    BY <1>9, <2>1, HandleFrameOk
  <2>3. QED
    BY <1>1, <2>1, <2>2, OneHandable
<1>10. QED
  BY <1>2, <1>3, <1>4, <1>5, <1>6, <1>7, <1>8, <1>9

LEMMA CloseHandable ==
  ASSUME Ok, Handable, ~Has("refresh"), NEW k \in Conns, Close(k)
  PROVE  Handable'
<1> DEFINE x == conn[k]
           y == conn'[k]
<1>1. /\ Only(k)
      /\ y.id = x.id /\ y.inbox = x.inbox /\ y.verifies = x.verifies
      /\ y.frozen = x.frozen \/ (x.id # NoClient /\ y.frozen = CaptureState(x, member))
      /\ UNCHANGED <<deployment, store, handed, saving>>
      /\ \/ calls' = calls
         \/ \E s \in State : calls' = Append(calls, Call(x.id, s, "flush", NoConn))
  BY CloseOk
<1>2. /\ x.verifies = NoClient /\ x.inbox.type # "refresh" /\ FrozenNamed(conn)
      /\ BlobsStored(saving.blobs, store) /\ HandedStored(handed, store)
  BY DEF Handable
<1>3. conn \in [Conns -> Ctx] /\ calls \in Seq(Calls)
  BY DEF Ok, TypeOK
<1>4. y.frozen # NoState => y.frozen.clientId = y.id
  <2>1. CaptureState(x, member).clientId = x.id
    BY <1>2, <1>3, CaptureOwned
  <2>2. QED
    BY <1>1, <1>2, <2>1 DEF FrozenNamed
<1>5. /\ \A j \in Conns : conn'[j].verifies = NoClient /\ conn'[j].inbox.type # "refresh"
      /\ FrozenNamed(conn')
      /\ CallsOwned(calls, conn')
  BY <1>1, <1>2, <1>4, ContextsHandable
<1>6. CallsOwned(calls', conn')
  <2>1. CASE calls' = calls
    BY <1>5, <2>1
  <2>2. ASSUME NEW s \in State, calls' = Append(calls, Call(x.id, s, "flush", NoConn))
        PROVE  CallsOwned(calls', conn')
    <3>1. CASE x.id = NoClient
      <4>1. calls' = calls
        BY <3>1 DEF Close, sessionVars
      <4>2. QED
        BY <1>5, <4>1
    <3>2. CASE x.id # NoClient
      <4>1. x.id \in Clients
        BY <1>3, <3>2 DEF Ctx, Ids
      <4>2. QED
        BY <1>3, <1>5, <2>2, <4>1, FlushOwned
    <3>3. QED
      BY <3>1, <3>2
  <2>3. QED
    BY <1>1, <2>1, <2>2
<1>7. QED
  BY <1>1, <1>2, <1>5, <1>6 DEF Handable

LEMMA FenceCrossedHandable ==
  ASSUME Ok, Handable, ~Has("refresh"), NEW c \in Clients, FenceCrossed(c)
  PROVE  Handable'
<1> DEFINE k == liveClients[c]
<1>1. k \in Conns /\ Only(k) /\ Same(conn'[k], conn[k])
  BY FenceCrossedOk
<1>2. UNCHANGED <<calls, store, handed, saving>>
  BY DEF FenceCrossed
<1> HIDE DEF k
<1>3. /\ conn[k].verifies = NoClient /\ conn[k].inbox.type # "refresh"
      /\ conn[k].frozen # NoState => conn[k].frozen.clientId = conn[k].id
  BY <1>1 DEF Handable, FrozenNamed
<1>4. QED
  BY <1>1, <1>2, <1>3, OneHandable DEF Same

LEMMA MigrateClientHandable ==
  ASSUME Ok, Handable, ~Has("refresh"), NEW c \in Clients, MigrateClient(c)
  PROVE  Handable'
<1> DEFINE k == liveClients[c]
           s == CaptureState(conn[k], member)
<1>1. /\ k \in Conns /\ conn[k].id = c
      /\ UNCHANGED <<deployment, conn, member, liveClients, store, handed, saving>>
      /\ \/ \E t \in State : calls' = Append(calls, Call(c, t, "migrate_flush", k))
         \/ calls' = Append(calls, Call(c, s, "migrate", k))
  BY MigrateClientOk
<1>2. conn \in [Conns -> Ctx] /\ calls \in Seq(Calls) /\ FrozenNamed(conn) /\ CallsOwned(calls, conn)
  BY DEF Ok, TypeOK, Handable
<1>3. c \in Clients /\ k \in MaybeConn /\ conn[k].id # NoClient /\ s.clientId = c
  BY <1>1, <1>2, CaptureOwned, GatewayAssumption DEF MaybeConn
<1>4. s \in State
  BY <1>1, <1>2, <1>3, CaptureType
<1> HIDE DEF s, k
<1>5. CallsOwned(calls', conn)
  <2>1. ASSUME NEW t \in State, calls' = Append(calls, Call(c, t, "migrate_flush", k))
        PROVE  CallsOwned(calls', conn)
    <3> DEFINE e == Call(c, t, "migrate_flush", k)
    <3>1. e \in Calls /\ e.client = c /\ e.conn = k /\ e.by = "migrate_flush"
      BY <1>3, CallType
    <3> HIDE DEF e
    <3>2. calls' = Append(calls, e)
      BY <2>1 DEF e
    <3>3. QED
      BY <1>1, <1>2, <3>1, <3>2, AppendOwned
  <2>2. CASE calls' = Append(calls, Call(c, s, "migrate", k))
    <3> DEFINE e == Call(c, s, "migrate", k)
    <3>1. e \in Calls /\ e.client = c /\ e.conn = k /\ e.by = "migrate" /\ e.state = s
      BY <1>3, <1>4, CallType
    <3> HIDE DEF e
    <3>2. calls' = Append(calls, e)
      BY <2>2 DEF e
    <3>3. QED
      BY <1>1, <1>2, <1>3, <3>1, <3>2, AppendOwned
  <2>3. QED
    BY <1>1, <2>1, <2>2
<1>6. QED
  BY <1>1, <1>5 DEF Handable

LEMMA TimerFiresHandable ==
  ASSUME Ok, Handable, ~Has("refresh"), NEW c \in Clients, TimerFires(c)
  PROVE  Handable'
<1>1. UNCHANGED <<conn, store, handed, saving>>
  BY DEF TimerFires
<1>2. PICK s \in State : calls' = Append(calls, Call(c, s, "flush", NoConn))
  BY TimerFiresOk
<1>3. calls \in Seq(Calls) /\ CallsOwned(calls, conn)
  BY DEF Ok, TypeOK, Handable
<1>4. CallsOwned(calls', conn)
  BY <1>2, <1>3, FlushOwned
<1>5. QED
  BY <1>1, <1>4 DEF Handable

\* The loop of saveAllSessions() saves every client's own state, and hands out blobs that
\* have been stored.
LEMMA SaveNextHandable ==
  ASSUME Ok, NEW q \in Seq(Calls), CallsNamed(q, conn), CallsOwned(q, conn), FrozenNamed(conn),
         NEW progress \in [visited : SUBSET Clients, blobs : [Clients -> MaybeState]],
         NEW saved, BlobsStored(progress.blobs, saved), HandedStored(handed, saved),
         SaveNext(q, progress)
  PROVE  CallsOwned(calls', conn) /\ BlobsStored(saving'.blobs, saved) /\ HandedStored(handed', saved)
<1>1. /\ saving'.blobs = progress.blobs
      /\ \A s \in handed' : s \in handed \/ \E c \in Clients : s = progress.blobs[c] /\ s # NoState
      /\ \/ calls' = q
         \/ \E c \in Clients :
              /\ liveClients[c] \in Conns /\ conn[liveClients[c]].id = c
              /\ calls' = Append(q, Call(c, CaptureState(conn[liveClients[c]], member), "all", liveClients[c]))
  BY SaveNextOk
<1>2. BlobsStored(saving'.blobs, saved)
  BY <1>1
<1>3. HandedStored(handed', saved)
  BY <1>1 DEF BlobsStored, HandedStored
<1>4. ASSUME NEW c \in Clients, liveClients[c] \in Conns, conn[liveClients[c]].id = c,
             calls' = Append(q, Call(c, CaptureState(conn[liveClients[c]], member), "all", liveClients[c]))
      PROVE  CallsOwned(calls', conn)
  <2> DEFINE k == liveClients[c]
             s == CaptureState(conn[k], member)
             e == Call(c, s, "all", k)
  <2>1. k \in MaybeConn /\ conn \in [Conns -> Ctx] /\ conn[k].id # NoClient
    BY <1>4, GatewayAssumption DEF MaybeConn, Ok, TypeOK
  <2>2. s.clientId = c
    BY <1>4, <2>1, CaptureOwned
  <2>3. s \in State
    BY <1>4, <2>1, CaptureType
  <2>4. calls' = Append(q, e)
    BY <1>4
  <2> HIDE DEF k, s
  <2>5. e \in Calls /\ e.client = c /\ e.by = "all" /\ e.state = s
    BY <2>1, <2>3, CallType
  <2> HIDE DEF e
  <2>6. QED
    BY <2>2, <2>4, <2>5, AppendOwned
<1>5. QED
  BY <1>1, <1>2, <1>3, <1>4

LEMMA SaveSettlesHandable ==
  ASSUME Ok, Handable, ~Has("refresh"), NEW ok \in BOOLEAN, SaveSettles(ok)
  PROVE  Handable'
<1> DEFINE call == Head(calls)
           q == Tail(calls)
<1>1. calls # <<>> /\ calls \in Seq(Calls) /\ CallsNamed(calls, conn)
  BY DEF SaveSettles, Ok, TypeOK, Named
<1>2. /\ call \in Calls /\ q \in Seq(Calls) /\ CallsNamed(q, conn)
      /\ call.by \in {"migrate_flush", "migrate"} => call.conn \in Conns /\ conn[call.conn].id # NoClient
  BY <1>1, TailNamed
<1>3. /\ \A k \in Conns : conn[k].verifies = NoClient /\ conn[k].inbox.type # "refresh"
      /\ FrozenNamed(conn) /\ CallsOwned(calls, conn)
      /\ BlobsStored(saving.blobs, store) /\ HandedStored(handed, store)
  BY DEF Handable
<1>4. /\ CallsOwned(q, conn)
      /\ call.by \in {"migrate_flush", "migrate"} => conn[call.conn].id = call.client
      /\ call.by \in {"migrate", "all"} => call.state.clientId = call.client
  <2>1. /\ Len(q) = Len(calls) - 1
        /\ \A i \in 1 .. Len(q) : q[i] = calls[i + 1]
        /\ Len(calls) \in Nat \ {0}
    BY <1>1, HeadTailProperties, EmptySeq
  <2>2. 1 \in 1 .. Len(calls) /\ call = calls[1]
    BY <1>1, <2>1
  <2> HIDE DEF q, call
  <2>3. \A i \in 1 .. Len(q) : i + 1 \in 1 .. Len(calls)
    BY <2>1
  <2>4. QED
    BY <1>3, <2>1, <2>2, <2>3 DEF CallsOwned
<1>5. /\ Continues(call, q, ok)
      /\ store' = (IF ok THEN [store EXCEPT ![call.client] = call.state] ELSE store)
  BY DEF SaveSettles
<1> HIDE DEF call, q
<1>6. call.client \in Clients /\ call.state \in State /\ call.state # NoState
  BY <1>2, StateAssumption DEF Calls
<1>7. /\ \A c \in Clients : store[c] # NoState => store'[c] # NoState
      /\ ok => store'[call.client] # NoState
  BY <1>5, <1>6 DEF Ok, TypeOK
<1>8. BlobsStored(saving.blobs, store') /\ HandedStored(handed, store')
  BY <1>3, <1>7 DEF BlobsStored, HandedStored, Ok, TypeOK, State
<1>9. Closing
  BY SaveSettlesOk
<1>10. /\ \A k \in Conns : conn'[k].verifies = NoClient /\ conn'[k].inbox.type # "refresh"
       /\ FrozenNamed(conn')
       /\ \A k \in Conns : conn'[k].id = conn[k].id
  BY <1>3, <1>9, ClosingSame DEF FrozenNamed, Ok
<1>11. ASSUME NEW p \in Seq(Calls), CallsNamed(p, conn), CallsOwned(p, conn)
       PROVE  CallsOwned(p, conn')
  <2> SUFFICES ASSUME NEW i \in 1 .. Len(p), p[i].by \in {"migrate_flush", "migrate"}
               PROVE  conn'[p[i].conn].id = p[i].client
    BY <1>11 DEF CallsOwned
  <2>1. p[i] \in Calls /\ p[i].conn # NoConn /\ conn[p[i].conn].id = p[i].client
    BY <1>11 DEF CallsNamed, CallsOwned
  <2>2. p[i].conn \in Conns
    BY <2>1 DEF Calls, MaybeConn
  <2>3. QED
    BY <1>10, <2>1, <2>2
<1>12. CallsOwned(q, conn')
  BY <1>2, <1>4, <1>11
<1>13. CASE calls' = q /\ UNCHANGED <<handed, saving>>
  BY <1>8, <1>10, <1>12, <1>13 DEF Handable
<1>14. CASE /\ call.by = "migrate_flush"
            /\ calls' = Append(q, Call(call.client, CaptureState(conn[call.conn], member), "migrate", call.conn))
            /\ UNCHANGED <<conn, localSessions, handed, saving>>
  <2> DEFINE s == CaptureState(conn[call.conn], member)
             e == Call(call.client, s, "migrate", call.conn)
  <2>1. conn \in [Conns -> Ctx] /\ call.conn \in Conns /\ conn[call.conn].id = call.client /\ conn[call.conn].id # NoClient
    BY <1>2, <1>4, <1>14 DEF Ok, TypeOK
  <2>2. s \in State /\ s.clientId = call.client
    BY <1>3, <2>1, CaptureType, CaptureOwned
  <2>3. call.conn \in MaybeConn
    BY <2>1 DEF MaybeConn
  <2>4. calls' = Append(q, e)
    BY <1>14
  <2> HIDE DEF s
  <2>5. e \in Calls /\ e.client = call.client /\ e.conn = call.conn /\ e.by = "migrate" /\ e.state = s
    BY <1>6, <2>2, <2>3, CallType
  <2> HIDE DEF e
  <2>6. CallsOwned(calls', conn)
    BY <1>2, <1>4, <2>1, <2>2, <2>4, <2>5, AppendOwned
  <2>7. QED
    BY <1>8, <1>10, <1>14, <2>6 DEF Handable
<1>15. CASE call.by = "migrate" /\ AfterMigrateSave(call, q, ok)
  <2>1. calls' = q /\ saving' = saving
    BY <1>15 DEF AfterMigrateSave
  <2>2. handed' = handed \/ (ok /\ handed' = handed \cup {call.state})
    BY <1>15 DEF AfterMigrateSave
  <2>3. HandedStored(handed', store')
    BY <1>4, <1>7, <1>8, <1>15, <2>2 DEF HandedStored
  <2>4. QED
    BY <1>8, <1>10, <1>12, <2>1, <2>3 DEF Handable
<1>16. ASSUME NEW progress \in [visited : SUBSET Clients, blobs : [Clients -> MaybeState]],
              BlobsStored(progress.blobs, store'), SaveNext(q, progress), conn' = conn
       PROVE  Handable'
  <2>1. CallsOwned(calls', conn) /\ BlobsStored(saving'.blobs, store') /\ HandedStored(handed', store')
    BY <1>2, <1>3, <1>4, <1>8, <1>16, SaveNextHandable
  <2>2. QED
    BY <1>10, <1>16, <2>1 DEF Handable
<1>17. CASE SaveNext(q, saving) /\ conn' = conn
  <2>1. saving \in [visited : SUBSET Clients, blobs : [Clients -> MaybeState]]
    BY DEF Ok, TypeOK
  <2>2. QED
    BY <1>8, <1>16, <1>17, <2>1
<1>18. CASE call.by = "all" /\ SaveNext(q, Progress(call, ok)) /\ conn' = conn
  <2>1. /\ Progress(call, ok) \in [visited : SUBSET Clients, blobs : [Clients -> MaybeState]]
        /\ \A c \in Clients : Progress(call, ok).blobs[c] = saving.blobs[c]
                              \/ (ok /\ c = call.client /\ Progress(call, ok).blobs[c] = call.state)
    BY <1>2, ProgressType DEF Ok
  <2>2. BlobsStored(Progress(call, ok).blobs, store')
    BY <1>4, <1>7, <1>8, <1>18, <2>1 DEF BlobsStored
  <2>3. QED
    BY <1>16, <1>18, <2>1, <2>2
<1>19. QED
  BY <1>5, <1>13, <1>14, <1>15, <1>17, <1>18 DEF Continues, Progress

LEMMA NotifyHandable ==
  ASSUME Ok, Handable, ~Has("refresh"), Notify
  PROVE  Handable'
<1>1. /\ UNCHANGED <<conn, store>>
      /\ \/ SaveNext(calls, NotSaving)
         \/ /\ UNCHANGED <<handed, saving>>
            /\ \A i \in 1 .. Len(calls') :
                 (i \in 1 .. Len(calls) /\ calls'[i] = calls[i]) \/ calls'[i].by = "all_flush"
  BY NotifyOk
<1>2. /\ \A k \in Conns : conn[k].verifies = NoClient /\ conn[k].inbox.type # "refresh"
      /\ FrozenNamed(conn) /\ CallsOwned(calls, conn)
      /\ BlobsStored(saving.blobs, store) /\ HandedStored(handed, store)
  BY DEF Handable
<1>3. CASE SaveNext(calls, NotSaving)
  <2>1. NotSaving \in [visited : SUBSET Clients, blobs : [Clients -> MaybeState]] /\ BlobsStored(NotSaving.blobs, store)
    BY DEF NotSaving, NoStates, MaybeState, BlobsStored
  <2>2. calls \in Seq(Calls) /\ CallsNamed(calls, conn)
    BY DEF Ok, TypeOK, Named
  <2>3. CallsOwned(calls', conn) /\ BlobsStored(saving'.blobs, store) /\ HandedStored(handed', store)
    BY <1>2, <1>3, <2>1, <2>2, SaveNextHandable
  <2>4. QED
    BY <1>1, <1>2, <2>3 DEF Handable
<1>4. CASE /\ UNCHANGED <<handed, saving>>
           /\ \A i \in 1 .. Len(calls') :
                (i \in 1 .. Len(calls) /\ calls'[i] = calls[i]) \/ calls'[i].by = "all_flush"
  <2>1. CallsOwned(calls', conn)
    <3> SUFFICES ASSUME NEW i \in 1 .. Len(calls')
                 PROVE  /\ calls'[i].by \in {"migrate_flush", "migrate"} => conn[calls'[i].conn].id = calls'[i].client
                        /\ calls'[i].by \in {"migrate", "all"} => calls'[i].state.clientId = calls'[i].client
      BY DEF CallsOwned
    <3>1. CASE i \in 1 .. Len(calls) /\ calls'[i] = calls[i]
      BY <1>2, <3>1 DEF CallsOwned
    <3>2. CASE calls'[i].by = "all_flush"
      BY <3>2
    <3>3. QED
      BY <1>4, <3>1, <3>2
  <2>2. QED
    BY <1>1, <1>2, <1>4, <2>1 DEF Handable
<1>5. QED
  BY <1>1, <1>3, <1>4

LEMMA CloseConnectionsHandable ==
  ASSUME Ok, Handable, ~Has("refresh"), CloseConnections
  PROVE  Handable'
<1>1. Closing /\ UNCHANGED <<calls, store, handed, saving>>
  BY CloseConnectionsOk DEF sessionVars
<1>2. /\ \A k \in Conns : conn[k].verifies = NoClient /\ conn[k].inbox.type # "refresh"
      /\ FrozenNamed(conn) /\ CallsOwned(calls, conn)
      /\ BlobsStored(saving.blobs, store) /\ HandedStored(handed, store)
  BY DEF Handable
<1>3. /\ \A k \in Conns : conn'[k].verifies = NoClient /\ conn'[k].inbox.type # "refresh"
      /\ FrozenNamed(conn')
      /\ \A k \in Conns : conn'[k].id = conn[k].id
  BY <1>1, <1>2, ClosingSame DEF FrozenNamed, Ok
<1>4. CallsOwned(calls, conn')
  <2> SUFFICES ASSUME NEW i \in 1 .. Len(calls), calls[i].by \in {"migrate_flush", "migrate"}
               PROVE  conn'[calls[i].conn].id = calls[i].client
    BY <1>2 DEF CallsOwned
  <2>1. calls[i] \in Calls /\ calls[i].conn # NoConn /\ conn[calls[i].conn].id = calls[i].client
    BY <1>2 DEF CallsNamed, CallsOwned, Ok, TypeOK, Named
  <2>2. calls[i].conn \in Conns
    BY <2>1 DEF Calls, MaybeConn
  <2>3. QED
    BY <1>3, <2>1, <2>2
<1>5. QED
  BY <1>1, <1>2, <1>3, <1>4 DEF Handable

LEMMA ExitHandable ==
  ASSUME Ok, Handable, ~Has("refresh"), Exit
  PROVE  Handable'
<1>1. /\ \A k \in Conns :
           /\ conn'[k].verifies = NoClient /\ conn'[k].inbox = NoFrame /\ conn'[k].frozen = NoState
      /\ calls' = <<>> /\ saving' = NotSaving
      /\ \/ handed' = {}
         \/ handed' = handed /\ \A c \in Clients : store[c] # NoState => store'[c] # NoState
  BY ExitOk
<1>2. HandedStored(handed, store) /\ handed \subseteq State
  BY DEF Handable, Ok, TypeOK
<1>3. HandedStored(handed', store')
  BY <1>1, <1>2 DEF HandedStored, State
<1>4. BlobsStored(saving'.blobs, store')
  BY <1>1 DEF NotSaving, NoStates, BlobsStored
<1>5. FrozenNamed(conn') /\ CallsOwned(calls', conn')
  BY <1>1 DEF FrozenNamed, CallsOwned
<1>6. \A k \in Conns : conn'[k].verifies = NoClient /\ conn'[k].inbox.type # "refresh"
  BY <1>1 DEF NoFrame
<1>7. QED
  BY <1>3, <1>4, <1>5, <1>6 DEF Handable

LEMMA InitHandable == Init => Handable
<1> SUFFICES ASSUME Init PROVE Handable
  OBVIOUS
<1>1. \A k \in Conns : conn[k].verifies = NoClient /\ conn[k].inbox.type # "refresh"
  BY NoSocketType DEF Init, NoFrame
<1>2. FrozenNamed(conn) /\ CallsOwned(calls, conn)
  BY NoSocketType DEF Init, FrozenNamed, CallsOwned
<1>3. BlobsStored(saving.blobs, store) /\ HandedStored(handed, store)
  BY DEF Init, NotSaving, NoStates, BlobsStored, HandedStored
<1>4. QED
  BY <1>1, <1>2, <1>3 DEF Handable

LEMMA NextHandable == Ok /\ Handable /\ [Next]_vars => Handable'
<1> SUFFICES ASSUME Ok, Handable, [Next]_vars PROVE Handable'
  OBVIOUS
<1>1. Has("refresh")' <=> Has("refresh")
  BY DeploymentKept DEF Has
<1>2. CASE Has("refresh")
  BY <1>1, <1>2 DEF Handable
<1>3. CASE ~Has("refresh")
  <2>1. deployment.clients \subseteq Clients /\ Blobs \subseteq MaybeState
    BY BlobsTyped
  <2>2. ASSUME NEW k \in Conns, AuthFails(k) \/ AuthSucceeds(k) \/ RefreshSettles(k) \/ HandleWaiting(k)
        PROVE  Handable'
    BY <1>3, <2>2, HandlersHandable
  <2>3. ASSUME NEW k \in Conns, NEW c \in deployment.clients, NEW blob \in Blobs,
               NEW cookie \in BOOLEAN, Connection(k, c, blob, cookie)
        PROVE  Handable'
    <3>1. c \in Clients /\ blob \in MaybeState
      BY <2>1 DEF MaybeState
    <3>2. /\ Only(k) /\ conn[k] = NoSocket
          /\ conn'[k].id = NoClient /\ conn'[k].frozen = NoState /\ conn'[k].inbox = NoFrame
          /\ conn'[k].verifies = NoClient
      BY <2>3, <3>1, ConnectionOk
    <3>3. UNCHANGED <<calls, store, handed, saving>>
      BY <2>3 DEF Connection, sessionVars
    <3>4. conn'[k].inbox.type # "refresh" /\ conn[k].id = NoClient
      BY <3>2, NoSocketType DEF NoFrame
    <3>5. QED
      BY <1>3, <3>2, <3>3, <3>4, OneHandable
  <2>4. ASSUME NEW k \in Conns, LoadSettles(k) \/ LocationSettles(k) \/ Close(k)
        PROVE  Handable'
    BY <1>3, <2>4, HandlersHandable, CloseHandable
  <2>5. ASSUME NEW k \in Conns, NEW f \in Frames, FrameWaits(k, f) \/ HandleFrame(k, f)
        PROVE  Handable'
    BY <1>3, <2>5, HandlersHandable
  <2>6. ASSUME NEW c \in Clients, FenceCrossed(c) \/ TimerFires(c) \/ MigrateClient(c)
        PROVE  Handable'
    BY <1>3, <2>6, FenceCrossedHandable, TimerFiresHandable, MigrateClientHandable
  <2>7. ASSUME NEW ok \in BOOLEAN, SaveSettles(ok)
        PROVE  Handable'
    BY <1>3, <2>7, SaveSettlesHandable
  <2>8. CASE Signal \/ Drain \/ Restart \/ UNCHANGED vars
    <3>1. UNCHANGED <<conn, calls, store, handed, saving, deployment>>
      BY <2>8 DEF Signal, Drain, Restart, vars, sessionVars
    <3>2. QED
      BY <1>1, <3>1 DEF Handable
  <2>9. CASE Notify
    BY <1>3, <2>9, NotifyHandable
  <2>10. CASE CloseConnections
    BY <1>3, <2>10, CloseConnectionsHandable
  <2>11. CASE WssCloses \/ ForceExit \/ Crash
    BY <1>3, <2>11, ExitHandable DEF WssCloses, ForceExit, Crash
  <2>12. QED
    BY <2>2, <2>3, <2>4, <2>5, <2>6, <2>7, <2>8, <2>9, <2>10, <2>11 DEF Next, Event
<1>4. QED
  BY <1>2, <1>3

-------------------------------------------------------------------------------
(* What is remembered and saved *)

Plain == deployment.features \cap {"overlap", "refresh", "migrate", "jwks"} = {}

\* No connection of the client closed while its session was loading.
Whole(c) == \A k \in Conns : conn[k].id = c => ~conn[k].interrupted

Early == {"up", "stopping"}
Ending == {"notifying", "draining", "closing"}

\* A state is frozen by the close that is not an interruption, and authentication is over
\* before the signal is handled.
CtxPlain(x, phase) ==
  /\ x.frozen # NoState \/ x.interrupted => x.sock = "closed"
  /\ x.id # NoClient => x.sock # "none"
  /\ x.id # NoClient /\ x.sock = "closed" /\ ~x.interrupted => x.frozen # NoState
  /\ x.step = "auth" => ~x.touched /\ phase = "up"

\* saveAllSessions() calls the store only after the signal.
CallsPlain ==
  \A i \in 1 .. Len(calls) :
    /\ calls[i].by \notin {"migrate_flush", "migrate"}
    /\ calls[i].by \in {"all_flush", "all"} => stage \in Ending

Simple ==
  Plain =>
    /\ \A k \in Conns : CtxPlain(conn[k], stage)
    /\ CallsPlain
    /\ lastRooms \in [Clients -> SUBSET Rooms] /\ touched \in [Clients -> BOOLEAN]

Current(c) == [clientId |-> c, rooms |-> RoomsIn(member, c)]

\* A closed connection with a handler still to come has frozen the rooms its client had; what
\* a touched live context and the cache show are the rooms of the client.
Memory(c) ==
  /\ \A k \in Conns : conn[k].id = c /\ conn[k].sock = "closed" /\ conn[k].awaits # NoClient =>
       conn[k].frozen.rooms = lastRooms[c]
  /\ liveClients[c] # NoConn /\ conn[liveClients[c]].touched =>
       touched[c] /\ lastRooms[c] = RoomsIn(member, c) /\ localSessions[c] = Current(c)
  /\ liveClients[c] = NoConn /\ localSessions[c] # NoState => localSessions[c].rooms = lastRooms[c]

\* The last save of the client under way has this state, or the store if there is none.
Saved(queue, saved, c, v) ==
  /\ \A i \in 1 .. Len(queue) :
       queue[i].client = c /\ (\A j \in 1 .. Len(queue) : i < j => queue[j].client # c) => queue[i].state = v
  /\ (\A i \in 1 .. Len(queue) : queue[i].client # c) => saved[c] = v

\* The cached state is what the pending save will capture, or what the last save has.
OnItsWay(c) ==
  /\ localSessions[c] # NoState /\ touched[c] =>
       IF pending[c] = NoConn THEN Saved(calls, store, c, localSessions[c])
       ELSE CaptureState(conn[pending[c]], member) = localSessions[c]
  /\ pending[c] # NoConn /\ liveClients[c] # NoConn /\ ~conn[liveClients[c]].touched => stage \in Early
  /\ pending[c] # NoConn => conn[pending[c]].id = c

Remembering ==
  Plain => \A c \in Clients : Whole(c) => Memory(c) /\ (~Has("rejects") => OnItsWay(c))

-------------------------------------------------------------------------------
(* What a step can do to a client *)

Alike(y, x) ==
  /\ y.frozen = x.frozen /\ y.touched = x.touched /\ y.interrupted = x.interrupted
  /\ y.sock = "closed" <=> x.sock = "closed"
  /\ y.sock = "closed" /\ y.awaits # NoClient => x.awaits # NoClient

SavedKept(d) == \A v : Saved(calls, store, d, v) => Saved(calls', store', d, v)

\* Nothing that the gateway or the history has of the client changes, but for the session.
Still(d) ==
  /\ \A k \in Conns : conn'[k].id = d <=> conn[k].id = d
  /\ \A k \in Conns : conn[k].id = d => Alike(conn'[k], conn[k])
  /\ member'[d] = member[d] /\ liveClients'[d] = liveClients[d]
  /\ lastRooms'[d] = lastRooms[d] /\ touched'[d] = touched[d]

\* The session does not change either.
Rests(d) ==
  /\ Still(d)
  /\ localSessions'[d] = localSessions[d] /\ pending'[d] = pending[d]
  /\ ~Has("rejects") => SavedKept(d)
  /\ pending[d] # NoConn /\ stage \in Early => stage' \in Early

\* Its pending save goes out.
Flushed(d) ==
  /\ Still(d)
  /\ localSessions'[d] = localSessions[d] /\ pending[d] # NoConn /\ pending'[d] = NoConn
  /\ Saved(calls', store', d, CaptureState(conn[pending[d]], member))

\* saveAllSessions() saves it.
Stored(d) ==
  /\ Still(d)
  /\ liveClients[d] # NoConn
  /\ localSessions'[d] = Current(d)
  /\ pending'[d] = NoConn \/ (pending'[d] = pending[d] /\ stage \notin Early)
  /\ Saved(calls', store', d, Current(d))

\* Its live context is touched.
TouchedBy(d, k) ==
  /\ conn'[k].id = d /\ conn'[k].touched /\ conn'[k].sock # "closed" /\ conn'[k].frozen = NoState
  /\ \A j \in Conns : j # k /\ conn'[j].id = d => conn'[j].awaits = NoClient
  /\ liveClients'[d] = k /\ pending'[d] = k
  /\ localSessions'[d] = [clientId |-> d, rooms |-> RoomsIn(member', d)]
  /\ lastRooms'[d] = RoomsIn(member', d) /\ touched'[d]

\* A handler of a closed connection touches the context.
Late(d, k) ==
  /\ Whole(d)
  /\ conn[k].id = d /\ conn[k].sock = "closed" /\ conn[k].awaits # NoClient /\ conn[k].frozen # NoState
  /\ \A j \in Conns : conn'[j].id = d => /\ conn[j].id = d /\ conn'[j].frozen = conn[j].frozen
                                         /\ conn'[j].sock = conn[j].sock
                                         /\ conn'[j].awaits # NoClient => conn[j].awaits # NoClient
  /\ conn'[k].id = d
  /\ liveClients[d] = NoConn /\ liveClients'[d] = NoConn
  /\ localSessions'[d] = conn[k].frozen /\ pending'[d] = k
  /\ lastRooms'[d] = lastRooms[d] /\ touched'[d] = touched[d]

\* Its connection closes.
ClosedBy(d, k) ==
  /\ Whole(d)
  /\ \A j \in Conns : j # k => conn'[j] = conn[j]
  /\ conn[k].id = d /\ conn'[k].id = d /\ conn'[k].frozen = Current(d)
  /\ \A j \in Conns : j # k /\ conn[j].id = d => conn[j].awaits = NoClient
  /\ liveClients[d] = k /\ liveClients'[d] = NoConn
  /\ localSessions'[d] = Current(d)
  /\ lastRooms'[d] = RoomsIn(member, d) /\ touched'[d] = conn[k].touched
  /\ pending'[d] = NoConn
  /\ IF pending[d] = NoConn THEN SavedKept(d)
     ELSE Saved(calls', store', d, CaptureState(conn'[pending[d]], member))

\* A new connection of it goes live.
Anew(d, k) ==
  /\ Whole(d)
  /\ \A j \in Conns : j # k => conn'[j] = conn[j]
  /\ conn[k].id = NoClient /\ conn'[k].id = d /\ ~conn'[k].touched /\ conn'[k].sock # "closed"
  /\ liveClients'[d] = k
  /\ localSessions'[d] \in {localSessions[d], NoState}
  /\ member'[d] = member[d] /\ pending'[d] = pending[d]
  /\ lastRooms'[d] = lastRooms[d] /\ touched'[d] = touched[d]
  /\ SavedKept(d) /\ stage' \in Early

\* The process forgets it.
Forgotten(d) ==
  /\ \A k \in Conns : conn'[k].id # d
  /\ liveClients'[d] = NoConn /\ pending'[d] = NoConn /\ localSessions'[d] = NoState

Kind(d) ==
  \/ Rests(d) \/ Flushed(d) \/ Stored(d) \/ Forgotten(d)
  \/ \E k \in Conns : TouchedBy(d, k) \/ Late(d, k) \/ ClosedBy(d, k) \/ Anew(d, k)

\* What a save would capture of a context of the client does not change.
LEMMA CaptureKept ==
  ASSUME NEW x, NEW y, NEW d \in Clients, y.id = d, x.id = d, y.frozen = x.frozen, member'[d] = member[d]
  PROVE  CaptureState(y, member') = CaptureState(x, member)
BY DEF CaptureState, RoomsIn

LEMMA StillWhole ==
  ASSUME NEW d \in Clients, Still(d), Whole(d)'
  PROVE  Whole(d)
BY DEF Still, Alike, Whole

LEMMA RestsRemember ==
  ASSUME Ok, Ok', NEW d \in Clients, Rests(d), Whole(d)', Whole(d) => Memory(d) /\ (~Has("rejects") => OnItsWay(d))
  PROVE  Memory(d)' /\ (~Has("rejects") => OnItsWay(d)')
<1>0. Memory(d) /\ (~Has("rejects") => OnItsWay(d)) /\ Still(d)
  BY StillWhole DEF Rests
<1>1. liveClients[d] # NoConn => /\ liveClients[d] \in Conns /\ conn[liveClients[d]].id = d
                                 /\ conn'[liveClients[d]].touched = conn[liveClients[d]].touched
  BY <1>0, SomeConn DEF Ok, TypeOK, Named, LiveNamed, Still, Alike
<1>2. RoomsIn(member', d) = RoomsIn(member, d) /\ Current(d)' = Current(d)
  BY <1>0 DEF Still, RoomsIn, Current
<1>3. Memory(d)'
  <2>1. ASSUME NEW k \in Conns, conn'[k].id = d, conn'[k].sock = "closed", conn'[k].awaits # NoClient
        PROVE  conn'[k].frozen.rooms = lastRooms'[d]
    BY <1>0, <2>1 DEF Still, Alike, Memory
  <2>2. QED
    BY <1>0, <1>1, <1>2, <2>1 DEF Memory, Still, Rests
<1>4. ASSUME ~Has("rejects") PROVE OnItsWay(d)'
  <2>1. OnItsWay(d) /\ SavedKept(d)
    BY <1>0, <1>4 DEF Rests
  <2>2. ASSUME pending[d] # NoConn
        PROVE  /\ conn'[pending[d]].id = d
               /\ CaptureState(conn'[pending[d]], member') = CaptureState(conn[pending[d]], member)
    <3>1. pending[d] \in Conns /\ conn[pending[d]].id = d
      BY <2>1, <2>2, SomeConn DEF Ok, TypeOK, OnItsWay
    <3>2. conn'[pending[d]].id = d /\ conn'[pending[d]].frozen = conn[pending[d]].frozen
      BY <1>0, <3>1 DEF Still, Alike
    <3>3. QED
      BY <1>0, <3>1, <3>2, CaptureKept DEF Still
  <2>3. /\ localSessions'[d] = localSessions[d] /\ pending'[d] = pending[d] /\ touched'[d] = touched[d]
        /\ liveClients'[d] = liveClients[d]
        /\ pending[d] # NoConn /\ stage \in Early => stage' \in Early
    BY DEF Rests, Still
  <2>4. localSessions'[d] # NoState /\ touched'[d] =>
          IF pending'[d] = NoConn THEN Saved(calls', store', d, localSessions'[d])
          ELSE CaptureState(conn'[pending'[d]], member') = localSessions'[d]
    BY <2>1, <2>2, <2>3 DEF OnItsWay, SavedKept
  <2>5. pending'[d] # NoConn /\ liveClients'[d] # NoConn /\ ~conn'[liveClients'[d]].touched => stage' \in Early
    BY <1>1, <2>1, <2>3 DEF OnItsWay
  <2>6. QED
    BY <2>2, <2>3, <2>4, <2>5 DEF OnItsWay
<1>5. QED
  BY <1>3, <1>4

LEMMA FlushedRemember ==
  ASSUME Ok, Ok', NEW d \in Clients, Flushed(d), Whole(d)', Whole(d) => Memory(d) /\ (~Has("rejects") => OnItsWay(d))
  PROVE  Memory(d)' /\ (~Has("rejects") => OnItsWay(d)')
<1>0. Memory(d) /\ (~Has("rejects") => OnItsWay(d)) /\ Still(d)
  BY StillWhole DEF Flushed
<1>1. liveClients[d] # NoConn => conn'[liveClients[d]].touched = conn[liveClients[d]].touched
  BY <1>0, SomeConn DEF Ok, TypeOK, Named, LiveNamed, Still, Alike
<1>2. RoomsIn(member', d) = RoomsIn(member, d) /\ Current(d)' = Current(d)
  BY <1>0 DEF Still, RoomsIn, Current
<1>3. Memory(d)'
  <2>1. ASSUME NEW k \in Conns, conn'[k].id = d, conn'[k].sock = "closed", conn'[k].awaits # NoClient
        PROVE  conn'[k].frozen.rooms = lastRooms'[d]
    BY <1>0, <2>1 DEF Still, Alike, Memory
  <2>2. QED
    BY <1>0, <1>1, <1>2, <2>1 DEF Memory, Still, Flushed
<1>4. ASSUME ~Has("rejects") PROVE OnItsWay(d)'
  <2>1. OnItsWay(d) /\ pending[d] # NoConn /\ pending'[d] = NoConn
    BY <1>0, <1>4 DEF Flushed
  <2>2. localSessions'[d] # NoState /\ touched'[d] => Saved(calls', store', d, localSessions'[d])
    BY <1>0, <2>1 DEF OnItsWay, Flushed, Still
  <2>3. QED
    BY <2>1, <2>2 DEF OnItsWay
<1>5. QED
  BY <1>3, <1>4

LEMMA StoredRemember ==
  ASSUME Ok, Ok', NEW d \in Clients, Stored(d), Whole(d)', Whole(d) => Memory(d) /\ (~Has("rejects") => OnItsWay(d))
  PROVE  Memory(d)' /\ (~Has("rejects") => OnItsWay(d)')
<1>0. Memory(d) /\ (~Has("rejects") => OnItsWay(d)) /\ Still(d) /\ liveClients[d] # NoConn
  BY StillWhole DEF Stored
<1>1. conn'[liveClients[d]].touched = conn[liveClients[d]].touched
  BY <1>0, SomeConn DEF Ok, TypeOK, Named, LiveNamed, Still, Alike
<1>2. RoomsIn(member', d) = RoomsIn(member, d) /\ Current(d)' = Current(d)
  BY <1>0 DEF Still, RoomsIn, Current
<1>3. Memory(d)'
  <2>1. ASSUME NEW k \in Conns, conn'[k].id = d, conn'[k].sock = "closed", conn'[k].awaits # NoClient
        PROVE  conn'[k].frozen.rooms = lastRooms'[d]
    BY <1>0, <2>1 DEF Still, Alike, Memory
  <2>2. QED
    BY <1>0, <1>1, <1>2, <2>1 DEF Memory, Still, Stored
<1>4. ASSUME ~Has("rejects") PROVE OnItsWay(d)'
  <2>1. OnItsWay(d) /\ localSessions'[d] = Current(d) /\ Saved(calls', store', d, Current(d))
    BY <1>0, <1>4 DEF Stored
  <2>2. CASE pending'[d] = NoConn
    BY <2>1, <2>2 DEF OnItsWay
  <2>3. CASE pending'[d] # NoConn
    <3>1. pending'[d] = pending[d] /\ stage \notin Early
      BY <2>3 DEF Stored
    <3>2. conn[liveClients[d]].touched
      BY <1>0, <2>1, <2>3, <3>1 DEF OnItsWay
    <3>3. touched[d] /\ localSessions[d] = Current(d)
      BY <1>0, <3>2 DEF Memory
    <3>4. Current(d) # NoState
      BY StateAssumption DEF Current, State, RoomsIn
    <3>5. pending[d] \in Conns /\ conn[pending[d]].id = d /\ CaptureState(conn[pending[d]], member) = Current(d)
      BY <2>1, <2>3, <3>1, <3>3, <3>4, SomeConn DEF OnItsWay, Ok, TypeOK
    <3>6. conn'[pending[d]].id = d /\ conn'[pending[d]].frozen = conn[pending[d]].frozen
      BY <1>0, <3>5 DEF Still, Alike
    <3>7. CaptureState(conn'[pending[d]], member') = CaptureState(conn[pending[d]], member)
      BY <1>0, <3>5, <3>6, CaptureKept DEF Still
    <3>8. liveClients'[d] = liveClients[d]
      BY <1>0 DEF Still
    <3>9. QED
      BY <1>1, <2>1, <2>3, <3>1, <3>2, <3>5, <3>6, <3>7, <3>8 DEF OnItsWay
  <2>4. QED
    BY <2>2, <2>3
<1>5. QED
  BY <1>3, <1>4

LEMMA TouchedRemember ==
  ASSUME Ok, Ok', NEW d \in Clients, NEW k \in Conns, TouchedBy(d, k)
  PROVE  Memory(d)' /\ OnItsWay(d)'
<1>1. k # NoConn
  BY GatewayAssumption
<1>2. Memory(d)'
  BY <1>1 DEF TouchedBy, Memory, Current
<1>3. CaptureState(conn'[k], member') = localSessions'[d]
  BY DEF TouchedBy, CaptureState
<1>4. OnItsWay(d)'
  BY <1>1, <1>3 DEF TouchedBy, OnItsWay
<1>5. QED
  BY <1>2, <1>4

LEMMA LateRemember ==
  ASSUME NEW d \in Clients, NEW k \in Conns, Late(d, k), Whole(d) => Memory(d)
  PROVE  Memory(d)' /\ OnItsWay(d)'
<1>1. k # NoConn /\ Memory(d)
  BY GatewayAssumption DEF Late
<1>2. Memory(d)'
  BY <1>1 DEF Late, Memory
<1>3. CaptureState(conn'[k], member') = localSessions'[d]
  BY DEF Late, CaptureState
<1>4. OnItsWay(d)'
  BY <1>1, <1>3 DEF Late, OnItsWay
<1>5. QED
  BY <1>2, <1>4

LEMMA ClosedRemember ==
  ASSUME Ok, NEW d \in Clients, NEW k \in Conns, ClosedBy(d, k),
         Whole(d) => Memory(d) /\ (~Has("rejects") => OnItsWay(d))
  PROVE  Memory(d)' /\ (~Has("rejects") => OnItsWay(d)')
<1>1. k # NoConn /\ Memory(d) /\ (~Has("rejects") => OnItsWay(d))
  BY GatewayAssumption DEF ClosedBy
<1>2. Current(d).rooms = RoomsIn(member, d) /\ Current(d) # NoState
  BY StateAssumption DEF Current, State, RoomsIn
<1>3. Memory(d)'
  <2>1. ASSUME NEW j \in Conns, conn'[j].id = d, conn'[j].sock = "closed", conn'[j].awaits # NoClient
        PROVE  conn'[j].frozen.rooms = lastRooms'[d]
    BY <1>2, <2>1 DEF ClosedBy
  <2>2. QED
    BY <1>2, <2>1 DEF ClosedBy, Memory
<1>4. ASSUME ~Has("rejects"), touched'[d] PROVE Saved(calls', store', d, localSessions'[d])
  <2>1. touched[d] /\ localSessions[d] = Current(d) /\ localSessions'[d] = Current(d)
    BY <1>1, <1>4 DEF ClosedBy, Memory
  <2>2. CASE pending[d] = NoConn
    BY <1>1, <1>2, <1>4, <2>1, <2>2 DEF ClosedBy, OnItsWay, SavedKept
  <2>3. CASE pending[d] # NoConn
    <3>1. CaptureState(conn[pending[d]], member) = Current(d) /\ pending[d] \in Conns
      BY <1>1, <1>2, <1>4, <2>1, <2>3, SomeConn DEF OnItsWay, Ok, TypeOK
    <3>2. CASE pending[d] = k
      BY <1>2, <2>1, <2>3, <3>2 DEF ClosedBy, CaptureState
    <3>3. CASE pending[d] # k
      BY <2>1, <2>3, <3>1, <3>3 DEF ClosedBy
    <3>4. QED
      BY <3>2, <3>3
  <2>4. QED
    BY <2>2, <2>3
<1>5. QED
  BY <1>3, <1>4 DEF OnItsWay, ClosedBy

LEMMA AnewRemember ==
  ASSUME Ok, NEW d \in Clients, NEW k \in Conns, Anew(d, k),
         Whole(d) => Memory(d) /\ (~Has("rejects") => OnItsWay(d))
  PROVE  Memory(d)' /\ (~Has("rejects") => OnItsWay(d)')
<1>1. k # NoConn /\ Memory(d) /\ (~Has("rejects") => OnItsWay(d))
  BY GatewayAssumption DEF Anew
<1>2. Memory(d)'
  <2>1. ASSUME NEW j \in Conns, conn'[j].id = d, conn'[j].sock = "closed", conn'[j].awaits # NoClient
        PROVE  conn'[j].frozen.rooms = lastRooms'[d]
    BY <1>1, <2>1 DEF Anew, Memory
  <2>2. QED
    BY <1>1, <2>1 DEF Anew, Memory
<1>3. ASSUME ~Has("rejects") PROVE OnItsWay(d)'
  <2>1. ASSUME pending[d] # NoConn
        PROVE  /\ conn'[pending[d]].id = d
               /\ CaptureState(conn'[pending[d]], member') = CaptureState(conn[pending[d]], member)
    <3>1. pending[d] \in Conns /\ conn[pending[d]].id = d
      BY <1>1, <1>3, <2>1, SomeConn DEF Ok, TypeOK, OnItsWay
    <3>2. conn'[pending[d]] = conn[pending[d]]
      BY <3>1, GatewayAssumption DEF Anew
    <3>3. QED
      BY <3>1, <3>2, CaptureKept DEF Anew
  <2>2. QED
    BY <1>1, <1>3, <2>1 DEF Anew, OnItsWay, SavedKept
<1>4. QED
  BY <1>2, <1>3

LEMMA ForgottenRemember ==
  ASSUME NEW d \in Clients, Forgotten(d)
  PROVE  Memory(d)' /\ OnItsWay(d)'
BY DEF Forgotten, Memory, OnItsWay

\* Every kind of step keeps what is remembered.
LEMMA KindsRemember ==
  ASSUME Ok, Ok', Remembering, Plain, deployment' = deployment,
         \A d \in Clients : Whole(d)' => Kind(d)
  PROVE  Remembering'
<1> SUFFICES ASSUME NEW d \in Clients, Whole(d)'
             PROVE  Memory(d)' /\ (~Has("rejects") => OnItsWay(d)')
  BY DEF Remembering, Has
<1>1. Whole(d) => Memory(d) /\ (~Has("rejects") => OnItsWay(d))
  BY DEF Remembering
<1>2. Kind(d)
  OBVIOUS
<1>3. CASE Rests(d)
  BY <1>1, <1>3, RestsRemember
<1>4. CASE Flushed(d)
  BY <1>1, <1>4, FlushedRemember
<1>5. CASE Stored(d)
  BY <1>1, <1>5, StoredRemember
<1>6. CASE Forgotten(d)
  BY <1>6, ForgottenRemember
<1>7. ASSUME NEW k \in Conns, TouchedBy(d, k) \/ Late(d, k) \/ ClosedBy(d, k) \/ Anew(d, k)
      PROVE  Memory(d)' /\ (~Has("rejects") => OnItsWay(d)')
  BY <1>1, <1>7, TouchedRemember, LateRemember, ClosedRemember, AnewRemember
<1>8. QED
  BY <1>2, <1>3, <1>4, <1>5, <1>6, <1>7 DEF Kind

-------------------------------------------------------------------------------
(* Saves under way *)

LEMMA SavedAppend ==
  ASSUME NEW q \in Seq(Calls), NEW e \in Calls, NEW s, NEW d, NEW v,
         IF e.client = d THEN e.state = v ELSE Saved(q, s, d, v)
  PROVE  Saved(Append(q, e), s, d, v)
<1> DEFINE p == Append(q, e)
<1>1. /\ Len(q) \in Nat /\ Len(p) = Len(q) + 1 /\ p[Len(q) + 1] = e
      /\ \A i \in 1 .. Len(q) : p[i] = q[i]
  BY AppendProperties, LenProperties
<1> HIDE DEF p
<1>2. Len(q) + 1 \in 1 .. Len(p) /\ \A i \in 1 .. Len(p) : i \in 1 .. Len(q) \/ i = Len(q) + 1
  BY <1>1
<1>3. \A i \in 1 .. Len(q) : i \in 1 .. Len(p) /\ i < Len(q) + 1
  BY <1>1
<1>4. CASE e.client = d
  BY <1>1, <1>2, <1>3, <1>4 DEF Saved
<1>5. CASE e.client # d
  <2>1. Saved(q, s, d, v)
    BY <1>5
  <2>2. ASSUME NEW i \in 1 .. Len(p), p[i].client = d, \A j \in 1 .. Len(p) : i < j => p[j].client # d
        PROVE  p[i].state = v
    <3>1. i \in 1 .. Len(q)
      BY <1>1, <1>2, <1>5, <2>2
    <3>2. \A j \in 1 .. Len(q) : i < j => q[j].client # d
      BY <1>1, <1>3, <2>2
    <3>3. QED
      BY <1>1, <2>1, <2>2, <3>1, <3>2 DEF Saved
  <2>3. (\A i \in 1 .. Len(p) : p[i].client # d) => s[d] = v
    BY <1>1, <1>3, <2>1 DEF Saved
  <2>4. QED
    BY <2>2, <2>3 DEF Saved
<1>6. QED
  BY <1>4, <1>5 DEF p

LEMMA SavedTail ==
  ASSUME NEW q \in Seq(Calls), q # <<>>, NEW s \in [Clients -> MaybeState], NEW d \in Clients, NEW v,
         Saved(q, s, d, v)
  PROVE  Saved(Tail(q), [s EXCEPT ![Head(q).client] = Head(q).state], d, v)
<1> DEFINE p == Tail(q)
           t == [s EXCEPT ![Head(q).client] = Head(q).state]
<1>1. /\ Len(q) \in Nat /\ Len(q) >= 1 /\ Len(p) = Len(q) - 1 /\ Head(q) = q[1] /\ q[1] \in Calls
      /\ \A i \in 1 .. Len(p) : p[i] = q[i + 1]
  BY HeadTailProperties, LenProperties, EmptySeq, ElementOfSeq
<1>2. q[1].client \in Clients /\ (q[1].client = d => t[d] = q[1].state) /\ (q[1].client # d => t[d] = s[d])
  BY <1>1 DEF Calls
<1> HIDE DEF p, t
<1>3. \A i \in 1 .. Len(p) : i + 1 \in 1 .. Len(q) /\ i + 1 > 1
  BY <1>1
<1>4. \A j \in 1 .. Len(q) : j = 1 \/ (j - 1 \in 1 .. Len(p) /\ p[j - 1] = q[j])
  BY <1>1
<1>5. ASSUME NEW i \in 1 .. Len(p), p[i].client = d, \A j \in 1 .. Len(p) : i < j => p[j].client # d
      PROVE  p[i].state = v
  <2>1. ASSUME NEW j \in 1 .. Len(q), i + 1 < j PROVE q[j].client # d
    <3>1. j - 1 \in 1 .. Len(p) /\ p[j - 1] = q[j] /\ i < j - 1
      BY <1>4, <2>1
    <3>2. QED
      BY <1>5, <3>1
  <2>2. QED
    BY <1>1, <1>3, <1>5, <2>1 DEF Saved
<1>6. ASSUME \A i \in 1 .. Len(p) : p[i].client # d PROVE t[d] = v
  <2>1. ASSUME NEW j \in 1 .. Len(q), 1 < j PROVE q[j].client # d
    <3>1. j # 1
      BY <2>1
    <3>2. j - 1 \in 1 .. Len(p) /\ p[j - 1] = q[j]
      BY <1>4, <3>1
    <3>3. QED
      BY <1>6, <3>2
  <2>2. CASE q[1].client = d
    BY <1>1, <1>2, <2>1, <2>2 DEF Saved
  <2>3. CASE q[1].client # d
    <3>1. ASSUME NEW j \in 1 .. Len(q) PROVE q[j].client # d
      <4>1. CASE j = 1
        BY <2>3, <4>1
      <4>2. CASE j # 1
        <5>1. j - 1 \in 1 .. Len(p) /\ p[j - 1] = q[j]
          BY <1>4, <4>2
        <5>2. QED
          BY <1>6, <5>1
      <4>3. QED
        BY <4>1, <4>2
    <3>2. QED
      BY <1>2, <2>3, <3>1 DEF Saved
  <2>4. QED
    BY <2>2, <2>3
<1>7. QED
  BY <1>5, <1>6 DEF Saved, p, t

LEMMA ConcatParts ==
  ASSUME NEW q \in Seq(Calls), NEW more \in Seq(Calls)
  PROVE  /\ Len(q) \in Nat /\ Len(more) \in Nat /\ Len(q \o more) = Len(q) + Len(more)
         /\ \A i \in 1 .. Len(q) : (q \o more)[i] = q[i]
         /\ \A i \in 1 .. Len(q \o more) : i > Len(q) => (q \o more)[i] = more[i - Len(q)]
BY ConcatProperties, LenProperties

\* Calls that are put behind those under way.
LEMMA SavedConcat ==
  ASSUME NEW q \in Seq(Calls), NEW more \in Seq(Calls), NEW s, NEW d, NEW v,
         \A i \in 1 .. Len(more) : more[i].client = d => more[i].state = v,
         (\A i \in 1 .. Len(more) : more[i].client # d) => Saved(q, s, d, v)
  PROVE  Saved(q \o more, s, d, v)
<1> DEFINE p == q \o more
<1>1. /\ Len(q) \in Nat /\ Len(more) \in Nat /\ Len(p) = Len(q) + Len(more)
      /\ \A i \in 1 .. Len(q) : p[i] = q[i]
      /\ \A i \in 1 .. Len(p) : i > Len(q) => p[i] = more[i - Len(q)]
  BY ConcatParts
<1> HIDE DEF p
<1>2. \A i \in 1 .. Len(p) : i \in 1 .. Len(q) \/ (i > Len(q) /\ i - Len(q) \in 1 .. Len(more))
  BY <1>1
<1>3. \A n \in 1 .. Len(more) : Len(q) + n \in 1 .. Len(p) /\ Len(q) + n > Len(q) /\ p[Len(q) + n] = more[n]
  BY <1>1
<1>4. \A i \in 1 .. Len(q) : i \in 1 .. Len(p)
  BY <1>1
<1>5. ASSUME NEW i \in 1 .. Len(p), p[i].client = d, \A j \in 1 .. Len(p) : i < j => p[j].client # d
      PROVE  p[i].state = v
  <2>1. CASE i > Len(q)
    BY <1>1, <1>2, <1>5, <2>1
  <2>2. CASE ~(i > Len(q))
    <3>1. i \in 1 .. Len(q)
      BY <1>2, <2>2
    <3>2. ASSUME NEW n \in 1 .. Len(more) PROVE more[n].client # d
      <4>1. i < Len(q) + n
        BY <1>1, <3>1, <3>2
      <4>2. QED
        BY <1>3, <1>5, <4>1
    <3>3. Saved(q, s, d, v)
      BY <3>2
    <3>4. q[i].client = d /\ \A j \in 1 .. Len(q) : i < j => q[j].client # d
      BY <1>1, <1>4, <1>5, <3>1
    <3>5. q[i].state = v
      BY <3>1, <3>3, <3>4 DEF Saved
    <3>6. QED
      BY <1>1, <3>1, <3>5
  <2>3. QED
    BY <2>1, <2>2
<1>6. ASSUME \A i \in 1 .. Len(p) : p[i].client # d PROVE s[d] = v
  BY <1>1, <1>3, <1>4, <1>6 DEF Saved
<1>7. QED
  BY <1>5, <1>6 DEF Saved, p

-------------------------------------------------------------------------------
(* The kinds of the steps *)

\* Nothing happens but to contexts, in what sessions do not see.
LEMMA AllRest ==
  ASSUME \A k \in Conns : conn'[k].id = conn[k].id /\ Alike(conn'[k], conn[k]),
         UNCHANGED <<member, liveClients, localSessions, pending, calls, store, history>>,
         stage \in Early => stage' \in Early
  PROVE  \A d \in Clients : Kind(d)
<1> TAKE d \in Clients
<1>1. Still(d)
  BY DEF Still, history
<1>2. SavedKept(d)
  BY DEF SavedKept
<1>3. Rests(d)
  BY <1>1, <1>2 DEF Rests
<1>4. QED
  BY <1>3 DEF Kind

\* A step about one id leaves the others alone.
LEMMA OthersRest ==
  ASSUME NEW k \in Conns, Only(k), NEW d \in Clients, conn[k].id # d, conn'[k].id # d,
         member'[d] = member[d], liveClients'[d] = liveClients[d], lastRooms'[d] = lastRooms[d],
         touched'[d] = touched[d], localSessions'[d] = localSessions[d], pending'[d] = pending[d],
         SavedKept(d), stage' = stage
  PROVE  Kind(d)
<1>1. \A j \in Conns : conn'[j].id = d \/ conn[j].id = d => conn'[j] = conn[j]
  BY DEF Only
<1>2. Still(d)
  BY <1>1 DEF Still, Alike
<1>3. QED
  BY <1>2 DEF Rests, Kind

LEMMA PlainFacts ==
  ASSUME Plain
  PROVE  /\ ~Has("overlap") /\ ~Has("refresh") /\ ~Has("migrate") /\ ~Has("jwks")
         /\ Ordinary
BY DEF Plain, Has, Ordinary, SharedRefresh

\* The connected socket of an id is live, and no other connection of it is active.
LEMMA ConnectedAlone ==
  ASSUME Ok, Prompt, Plain, NEW k \in Conns, conn[k].sock \in {"open", "closing"}, conn[k].id \in Clients
  PROVE  /\ liveClients[conn[k].id] = k
         /\ \A j \in Conns : j # k /\ conn[j].id = conn[k].id => conn[j].awaits = NoClient
<1>1. Ordinary /\ ~Has("overlap")
  BY PlainFacts
<1>2. k \in Connected /\ conn[k].id # NoClient
  BY GatewayAssumption DEF Connected
<1>3. liveClients[conn[k].id] = k
  BY <1>1, <1>2 DEF Prompt, NewestLive
<1>4. ASSUME NEW j \in Conns, j # k, conn[j].id = conn[k].id PROVE conn[j].awaits = NoClient
  <2>1. Used(conn[k].id, conn[j]) /\ Used(conn[k].id, conn[k])
    BY <1>4 DEF Used
  <2>2. ~IsOver(conn[k])
    BY DEF IsOver
  <2>3. IsOver(conn[j])
    BY <1>1, <1>4, <2>1, <2>2 DEF Prompt, Exclusive
  <2>4. QED
    BY <2>3 DEF IsOver
<1>5. QED
  BY <1>3, <1>4

\* touchSession() of a connected or an interrupted context.
LEMMA TouchKinds ==
  ASSUME Ok, Simple, Plain, NEW k \in Conns, NEW x \in Ctx, x.id \in Clients, conn[k].id \in {x.id, NoClient},
         TouchSession(k, x, member'),
         \A d \in Clients : d # x.id => member'[d] = member[d] /\ liveClients'[d] = liveClients[d],
         UNCHANGED <<calls, store, stage>>,
         \/ x.interrupted
         \/ /\ x.sock # "closed" /\ x.frozen = NoState
            /\ liveClients'[x.id] = k
            /\ \A j \in Conns : j # k /\ conn[j].id = x.id => conn[j].awaits = NoClient
  PROVE  \A d \in Clients : Whole(d)' => Kind(d)
<1> DEFINE c == x.id
<1>1. c # NoClient /\ lastRooms \in [Clients -> SUBSET Rooms] /\ touched \in [Clients -> BOOLEAN]
  BY GatewayAssumption DEF Simple
<1>2. /\ Only(k) /\ Same(conn'[k], x) /\ conn'[k] = [x EXCEPT !.touched = TRUE]
      /\ pending' = [pending EXCEPT ![c] = k]
  BY <1>1, TouchType DEF Ok, TypeOK, TouchSession
<1>3. conn'[k].touched /\ conn'[k].id = c /\ conn'[k].sock = x.sock /\ conn'[k].frozen = x.frozen
      /\ conn'[k].interrupted = x.interrupted
  BY <1>2 DEF Same, Ctx
<1>4. ASSUME NEW d \in Clients, d # c
      PROVE  Kind(d)
  <2>1. localSessions'[d] = localSessions[d] /\ pending'[d] = pending[d]
    BY <1>4 DEF TouchSession, Ok, TypeOK
  <2>2. lastRooms'[d] = lastRooms[d] /\ touched'[d] = touched[d]
    BY <1>1, <1>4 DEF TouchSession, history
  <2>3. SavedKept(d)
    BY DEF SavedKept
  <2>4. /\ member'[d] = member[d] /\ liveClients'[d] = liveClients[d] /\ stage' = stage
        /\ conn[k].id # d /\ conn'[k].id # d
    BY <1>3, <1>4, GatewayAssumption
  <2>5. QED
    BY <1>2, <1>4, <2>1, <2>2, <2>3, <2>4, OthersRest
<1>5. ASSUME Whole(c)' PROVE Kind(c)
  <2>1. ~x.interrupted
    BY <1>3, <1>5 DEF Whole
  <2>2. /\ x.sock # "closed" /\ x.frozen = NoState /\ liveClients'[c] = k
        /\ \A j \in Conns : j # k /\ conn[j].id = c => conn[j].awaits = NoClient
    BY <2>1
  <2>3. lastRooms'[c] = RoomsIn(member', c) /\ touched'[c]
    BY <1>1, <2>2 DEF TouchSession
  <2>4. localSessions'[c] = [clientId |-> c, rooms |-> RoomsIn(member', c)] /\ pending'[c] = k
    BY <1>2, <2>2 DEF TouchSession, CaptureState, Ok, TypeOK
  <2>5. TouchedBy(c, k)
    BY <1>2, <1>3, <2>2, <2>3, <2>4 DEF TouchedBy, Only
  <2>6. QED
    BY <2>5 DEF Kind
<1>6. QED
  BY <1>4, <1>5

\* The contexts after a step that changes one.
LEMMA OneSimple ==
  ASSUME Simple, Plain, deployment' = deployment, NEW k \in Conns, Only(k),
         CtxPlain(conn'[k], stage'), stage' = stage, CallsPlain', 
         lastRooms' \in [Clients -> SUBSET Rooms], touched' \in [Clients -> BOOLEAN]
  PROVE  Simple'
BY DEF Simple, Only, Plain

LEMMA TouchSimple ==
  ASSUME Ok, Simple, Plain, deployment' = deployment, NEW k \in Conns, NEW x \in Ctx, x.id \in Clients,
         CtxPlain(x, stage), x.step # "auth", TouchSession(k, x, member'), UNCHANGED <<calls, stage>>
  PROVE  Simple'
<1>1. x.id # NoClient
  BY GatewayAssumption
<1>2. Only(k) /\ Same(conn'[k], x)
  BY <1>1, TouchType DEF Ok
<1>3. CtxPlain(conn'[k], stage')
  BY <1>2 DEF CtxPlain, Same
<1>4. lastRooms' \in [Clients -> SUBSET Rooms] /\ touched' \in [Clients -> BOOLEAN]
  BY DEF TouchSession, Simple, RoomsIn, history
<1>5. CallsPlain'
  BY DEF Simple, CallsPlain
<1>6. QED
  BY <1>2, <1>3, <1>4, <1>5, OneSimple

\* What is to be shown of a step.
Keeps == Simple' /\ \A d \in Clients : Whole(d)' => Kind(d)

\* A context moves on and the sessions do not see it.
LEMMA MovesOn ==
  ASSUME Ok, Simple, Plain, NEW k \in Conns, NEW y \in Ctx, conn' = [conn EXCEPT ![k] = y],
         y.id = conn[k].id, Alike(y, conn[k]), y.sock = "none" => conn[k].sock = "none",
         y.step = "auth" => conn[k].step = "auth",
         UNCHANGED <<deployment, member, liveClients, localSessions, pending, calls, store, stage, history>>
  PROVE  Keeps
<1>1. Only(k) /\ conn'[k] = y
  BY DEF Only, Ok, TypeOK
<1>2. \A j \in Conns : conn'[j].id = conn[j].id /\ Alike(conn'[j], conn[j])
  BY <1>1 DEF Only, Alike
<1>3. \A d \in Clients : Kind(d)
  BY <1>2, AllRest
<1>4. CtxPlain(conn[k], stage)
  BY DEF Simple
<1>5. CtxPlain(conn'[k], stage')
  BY <1>1, <1>4 DEF CtxPlain, Alike
<1>6. CallsPlain' /\ lastRooms' \in [Clients -> SUBSET Rooms] /\ touched' \in [Clients -> BOOLEAN]
  BY DEF Simple, CallsPlain, history
<1>7. Simple'
  BY <1>1, <1>5, <1>6, OneSimple
<1>8. QED
  BY <1>3, <1>7 DEF Keeps

LEMMA ConnectionKeeps ==
  ASSUME Ok, Simple, Plain, NEW k \in Conns, NEW c \in Clients, NEW blob \in MaybeState, NEW cookie \in BOOLEAN,
         Connection(k, c, blob, cookie)
  PROVE  Keeps
<1>1. conn[k] = NoSocket /\ conn[k] \in Ctx /\ stage = "up"
      /\ UNCHANGED <<deployment, member, liveClients, localSessions, pending, calls, store, stage, history>>
  BY DEF Connection, Ok, TypeOK, sessionVars
<1>2. PICK y \in Ctx : /\ conn' = [conn EXCEPT ![k] = y]
                       /\ y.id = NoClient /\ y.frozen = NoState /\ y.touched = FALSE /\ y.interrupted = FALSE
                       /\ y.sock \in {"open", "closing"}
  <2> DEFINE y1 == [conn[k] EXCEPT !.step = "auth", !.sock = "open", !.token = c, !.blob = blob, !.cookie = cookie]
             y2 == [conn[k] EXCEPT !.step = "failed", !.sock = "closing"]
  <2>1. conn' = [conn EXCEPT ![k] = y1] \/ conn' = [conn EXCEPT ![k] = y2]
    BY DEF Connection, Ok, TypeOK
  <2>2. conn[k].touched = FALSE
    BY <1>1 DEF NoSocket
  <2>3. /\ y1 \in Ctx /\ y1.id = NoClient /\ y1.frozen = NoState /\ y1.touched = FALSE
        /\ y1.interrupted = FALSE /\ y1.sock \in {"open", "closing"}
    BY <1>1, <2>2, NoSocketType DEF Ctx, Ids
  <2>4. /\ y2 \in Ctx /\ y2.id = NoClient /\ y2.frozen = NoState /\ y2.touched = FALSE
        /\ y2.interrupted = FALSE /\ y2.sock \in {"open", "closing"}
    BY <1>1, <2>2, NoSocketType DEF Ctx, Ids
  <2> HIDE DEF y1, y2
  <2>5. QED
    BY <2>1, <2>3, <2>4
<1>3. /\ conn[k].id = NoClient /\ conn[k].frozen = NoState /\ conn[k].touched = FALSE
      /\ conn[k].interrupted = FALSE /\ conn[k].sock = "none"
  BY <1>1 DEF NoSocket
<1>4. Only(k) /\ conn'[k] = y
  BY <1>2 DEF Only, Ok, TypeOK
<1>5. \A j \in Conns : conn'[j].id = conn[j].id /\ Alike(conn'[j], conn[j])
  BY <1>2, <1>3, <1>4 DEF Only, Alike
<1>6. \A d \in Clients : Kind(d)
  BY <1>1, <1>5, AllRest
<1>7. CtxPlain(conn'[k], stage')
  BY <1>1, <1>2, <1>4 DEF CtxPlain
<1>8. CallsPlain' /\ lastRooms' \in [Clients -> SUBSET Rooms] /\ touched' \in [Clients -> BOOLEAN]
  BY <1>1 DEF Simple, CallsPlain, history
<1>9. Simple'
  BY <1>1, <1>4, <1>7, <1>8, OneSimple
<1>10. QED
  BY <1>6, <1>9 DEF Keeps

LEMMA AuthFailsKeeps ==
  ASSUME Ok, Simple, Plain, NEW k \in Conns, AuthFails(k)
  PROVE  Keeps
<1> DEFINE x == conn[k]
           z == CloseSocket(x)
           y == [z EXCEPT !.step = "failed"]
<1>1. x \in Ctx
  BY DEF Ok, TypeOK
<1>2. z \in Ctx /\ z.touched = x.touched /\ z.id = x.id /\ z.frozen = x.frozen
      /\ z.awaits = x.awaits /\ z.interrupted = x.interrupted /\ (z.sock = x.sock \/ (x.sock = "open" /\ z.sock = "closing"))
  BY <1>1 DEF CloseSocket, Ctx
<1>3. conn' = [conn EXCEPT ![k] = y]
  BY DEF AuthFails, Ok, TypeOK
<1> HIDE DEF z
<1>4. /\ y \in Ctx /\ y.step = "failed" /\ y.touched = x.touched /\ y.id = x.id /\ y.frozen = x.frozen
      /\ y.awaits = x.awaits /\ y.interrupted = x.interrupted /\ y.sock = z.sock
  BY <1>2 DEF Ctx
<1> HIDE DEF y
<1>5. Alike(y, x) /\ (y.sock = "none" => x.sock = "none")
  BY <1>2, <1>4 DEF Alike
<1>6. UNCHANGED <<deployment, member, liveClients, localSessions, pending, calls, store, stage, history>>
  BY DEF AuthFails, sessionVars
<1>7. QED
  BY <1>3, <1>4, <1>5, <1>6, MovesOn

LEMMA FrameWaitsKeeps ==
  ASSUME Ok, Simple, Plain, NEW k \in Conns, NEW f \in Frames, FrameWaits(k, f)
  PROVE  Keeps
<1> DEFINE y == [conn[k] EXCEPT !.inbox = f]
<1>1. conn[k] \in Ctx /\ f \in Inboxes
  BY FrameTypes DEF Ok, TypeOK
<1>2. /\ y \in Ctx /\ y.step = conn[k].step /\ y.id = conn[k].id /\ y.sock = conn[k].sock
      /\ Alike(y, conn[k])
  BY <1>1 DEF Ctx, Alike
<1>3. conn' = [conn EXCEPT ![k] = y]
  BY DEF FrameWaits, Ok, TypeOK
<1> HIDE DEF y
<1>4. UNCHANGED <<deployment, member, liveClients, localSessions, pending, calls, store, stage, history>>
  BY DEF FrameWaits, sessionVars
<1>5. QED
  BY <1>2, <1>3, <1>4, MovesOn

LEMMA LoadSettlesKeeps ==
  ASSUME Ok, Prompt, Simple, Plain, NEW k \in Conns, LoadSettles(k)
  PROVE  Keeps
<1> DEFINE x == conn[k]
           y == [x EXCEPT !.step = "ready", !.blob = NoState]
<1>1. /\ x \in Ctx /\ x.step = "load" /\ CtxNamed(x) /\ x.id # NoClient /\ x.id \in Clients
      /\ x.blob \in State /\ CtxPlain(x, stage)
  BY DEF LoadSettles, Ok, TypeOK, Named, CtxNamed, Ctx, Ids, MaybeState, Simple
<1>2. /\ y \in Ctx /\ y.step = "ready" /\ y.id = x.id /\ y.sock = x.sock /\ y.frozen = x.frozen
      /\ y.interrupted = x.interrupted /\ Alike(y, x)
  BY <1>1 DEF Ctx, Alike, MaybeState
<1>3. UNCHANGED <<deployment, liveClients, stage>>
  BY DEF LoadSettles
<1> HIDE DEF y
<1>4. CASE RestoreSession(k, y, x.blob)
  <2>1. TouchSession(k, y, member') /\ UNCHANGED <<calls, store>>
    BY <1>4 DEF RestoreSession
  <2>2. \A d \in Clients : d # y.id => member'[d] = member[d]
    BY <1>4 DEF RestoreSession, Ok, TypeOK
  <2>3. CtxPlain(y, stage)
    BY <1>1, <1>2 DEF CtxPlain
  <2>4. Simple'
    BY <1>1, <1>2, <1>3, <2>1, <2>3, TouchSimple
  <2>5. \/ y.interrupted
        \/ /\ y.sock # "closed" /\ y.frozen = NoState
           /\ liveClients'[y.id] = k
           /\ \A j \in Conns : j # k /\ conn[j].id = y.id => conn[j].awaits = NoClient
    <3>1. Excused(x)
      BY <1>1, PlainFacts DEF Prompt, CtxPrompt
    <3>2. CASE x.sock \in {"open", "closing"}
      BY <1>1, <1>2, <1>3, <3>2, ConnectedAlone DEF CtxPlain
    <3>3. QED
      BY <1>2, <3>1, <3>2 DEF Excused
  <2>6. \A d \in Clients : Whole(d)' => Kind(d)
    BY <1>1, <1>2, <1>3, <2>1, <2>2, <2>5, TouchKinds
  <2>7. QED
    BY <2>4, <2>6 DEF Keeps
<1>5. CASE conn' = [conn EXCEPT ![k] = y] /\ UNCHANGED <<member, sessionVars, history>>
  <2>1. UNCHANGED <<deployment, member, liveClients, localSessions, pending, calls, store, stage, history>>
    BY <1>3, <1>5 DEF sessionVars
  <2>2. QED
    BY <1>2, <1>5, <2>1, MovesOn
<1>6. QED
  BY <1>4, <1>5 DEF LoadSettles, y

\* While a connection authenticates, no other connection of its id is active.
LEMMA AuthAlone ==
  ASSUME Ok, Prompt, Plain, NEW k \in Conns, conn[k].step = "auth", conn[k].token \in Clients
  PROVE  \A j \in Conns : j # k /\ conn[j].id = conn[k].token => conn[j].awaits = NoClient
<1> SUFFICES ASSUME NEW j \in Conns, j # k, conn[j].id = conn[k].token PROVE conn[j].awaits = NoClient
  OBVIOUS
<1>1. Used(conn[k].token, conn[j]) /\ Used(conn[k].token, conn[k]) /\ ~IsOver(conn[k])
  BY DEF Used, IsOver
<1>2. IsOver(conn[j])
  BY <1>1, PlainFacts DEF Prompt, Exclusive
<1>3. QED
  BY <1>2 DEF IsOver

\* A connection goes live and nothing is restored.
LEMMA AnewKinds ==
  ASSUME Ok, Prompt, Simple, Plain, NEW k \in Conns, NEW c \in Clients, Only(k),
         conn[k].id = NoClient, conn'[k].id = c, ~conn'[k].touched, conn'[k].sock # "closed",
         liveClients' = [liveClients EXCEPT ![c] = k],
         \A d \in Clients : localSessions'[d] = localSessions[d] \/ (d = c /\ localSessions'[d] = NoState),
         UNCHANGED <<member, pending, calls, store, stage, history>>, stage = "up"
  PROVE  \A d \in Clients : Whole(d)' => Kind(d)
<1>1. \A d : SavedKept(d)
  BY DEF SavedKept
<1>2. c # NoClient
  BY GatewayAssumption
<1>3. ASSUME NEW d \in Clients, d # c PROVE Kind(d)
  <2>1. conn[k].id # d /\ conn'[k].id # d /\ liveClients'[d] = liveClients[d] /\ localSessions'[d] = localSessions[d]
    BY <1>3, GatewayAssumption DEF Ok, TypeOK
  <2>2. /\ member'[d] = member[d] /\ lastRooms'[d] = lastRooms[d] /\ touched'[d] = touched[d]
        /\ pending'[d] = pending[d] /\ stage' = stage
    BY DEF history
  <2>3. QED
    BY <1>1, <2>1, <2>2, OthersRest
<1>4. ASSUME Whole(c)' PROVE Kind(c)
  <2>1. Whole(c)
    BY <1>2, <1>4 DEF Whole, Only
  <2>2. liveClients'[c] = k /\ \A j \in Conns : j # k => conn'[j] = conn[j]
    BY DEF Ok, TypeOK, Only
  <2>3. Anew(c, k)
    BY <1>1, <2>1, <2>2 DEF Anew, history, Early
  <2>4. QED
    BY <2>3 DEF Kind
<1>5. QED
  BY <1>3, <1>4

LEMMA AuthSucceedsKeeps ==
  ASSUME Ok, Prompt, Simple, Plain, NEW k \in Conns, AuthSucceeds(k)
  PROVE  Keeps
<1> DEFINE x == conn[k]
           c == x.token
           y == [x EXCEPT !.id = c, !.step = "ready", !.token = NoClient, !.cookie = FALSE]
           z == [y EXCEPT !.step = "load"]
<1>1. /\ x \in Ctx /\ x.step = "auth" /\ c \in Clients /\ x.id = NoClient /\ c # NoClient
      /\ CtxPlain(x, stage) /\ x.sock \in {"open", "closing"}
  BY PlainFacts, GatewayAssumption
     DEF AuthSucceeds, Ok, TypeOK, Named, CtxNamed, Ctx, Ids, Simple, Prompt, CtxPrompt
<1>2. /\ y \in Ctx /\ y.step = "ready" /\ y.id = c /\ y.sock = x.sock /\ y.frozen = x.frozen
      /\ y.touched = x.touched /\ y.interrupted = x.interrupted
  BY <1>1 DEF Ctx, Ids
<1> HIDE DEF y
<1>3. /\ z \in Ctx /\ z.step = "load" /\ z.id = c /\ z.sock = x.sock /\ z.frozen = x.frozen
      /\ z.touched = x.touched /\ z.interrupted = x.interrupted
  BY <1>2 DEF Ctx
<1> HIDE DEF z
<1>4. /\ x.frozen = NoState /\ ~x.interrupted /\ ~x.touched /\ stage = "up"
      /\ x.sock # "closed" /\ x.sock # "none"
  BY <1>1 DEF CtxPlain
<1>5. liveClients' = [liveClients EXCEPT ![c] = k] /\ UNCHANGED <<deployment, stage>>
  BY DEF AuthSucceeds
<1>6. ASSUME NEW w \in Ctx, w \in {y, z}, conn' = [conn EXCEPT ![k] = w],
             UNCHANGED <<member, pending, calls, store, history>>,
             \A d \in Clients : localSessions'[d] = localSessions[d] \/ (d = c /\ localSessions'[d] = NoState)
      PROVE  Keeps
  <2>1. Only(k) /\ conn'[k] = w
    BY <1>6 DEF Only, Ok, TypeOK
  <2>2. w.id = c /\ ~w.touched /\ w.sock # "closed" /\ w.sock # "none" /\ w.frozen = NoState /\ ~w.interrupted
        /\ w.step # "auth"
    BY <1>2, <1>3, <1>4, <1>6
  <2>3. \A d \in Clients : Whole(d)' => Kind(d)
    BY <1>1, <1>4, <1>5, <1>6, <2>1, <2>2, AnewKinds
  <2>4. CtxPlain(conn'[k], stage')
    BY <2>1, <2>2 DEF CtxPlain
  <2>5. CallsPlain' /\ lastRooms' \in [Clients -> SUBSET Rooms] /\ touched' \in [Clients -> BOOLEAN]
    BY <1>5, <1>6 DEF Simple, CallsPlain, history
  <2>6. Simple'
    BY <1>5, <2>1, <2>4, <2>5, OneSimple
  <2>7. QED
    BY <2>3, <2>6 DEF Keeps
<1>7. CASE x.blob # NoState /\ conn' = [conn EXCEPT ![k] = z] /\ UNCHANGED <<member, sessionVars, history>>
  BY <1>3, <1>6, <1>7 DEF sessionVars
<1>8. CASE localSessions[c] # NoState /\ RestoreSession(k, y, localSessions[c])
  <2>1. TouchSession(k, y, member') /\ UNCHANGED <<calls, store>>
    BY <1>8 DEF RestoreSession
  <2>2. \A d \in Clients : d # y.id => member'[d] = member[d] /\ liveClients'[d] = liveClients[d]
    BY <1>2, <1>5, <1>8 DEF RestoreSession, Ok, TypeOK
  <2>3. CtxPlain(y, stage)
    BY <1>2, <1>4 DEF CtxPlain
  <2>4. Simple'
    BY <1>1, <1>2, <1>5, <2>1, <2>3, TouchSimple
  <2>5. /\ y.sock # "closed" /\ y.frozen = NoState
        /\ liveClients'[y.id] = k
        /\ \A j \in Conns : j # k /\ conn[j].id = y.id => conn[j].awaits = NoClient
    BY <1>1, <1>2, <1>4, <1>5, AuthAlone DEF Ok, TypeOK
  <2>6. \A d \in Clients : Whole(d)' => Kind(d)
    BY <1>1, <1>2, <1>5, <2>1, <2>2, <2>5, TouchKinds
  <2>7. QED
    BY <2>4, <2>6 DEF Keeps
<1>9. CASE /\ conn' = [conn EXCEPT ![k] = y]
           /\ localSessions' = [localSessions EXCEPT ![c] = IF conn[k].cookie THEN NoState ELSE @]
           /\ UNCHANGED <<member, pending, calls, store, handed, saving, history>>
  <2>1. \A d \in Clients : localSessions'[d] = localSessions[d] \/ (d = c /\ localSessions'[d] = NoState)
    BY <1>1, <1>9 DEF Ok, TypeOK
  <2>2. QED
    BY <1>2, <1>6, <1>9, <2>1
<1>10. QED
  BY <1>7, <1>8, <1>9 DEF AuthSucceeds, y, z

\* A frame is handled on a connection that is connected or was interrupted.
LEMMA DispatchKeeps ==
  ASSUME Ok, Prompt, Simple, Plain, NEW k \in Conns, Excused(conn[k]), conn[k].step # "auth",
         NEW x \in Ctx, x.id = conn[k].id, x.id \in Clients, x.step = conn[k].step, Alike(x, conn[k]),
         x.sock = conn[k].sock,
         NEW f \in Inboxes, f.type # "refresh", Dispatch(k, x, f),
         UNCHANGED <<deployment, liveClients, calls, store, stage>>
  PROVE  Keeps
<1>1. CtxPlain(conn[k], stage) /\ conn[k] \in Ctx /\ x.id # NoClient
  BY GatewayAssumption DEF Simple, Ok, TypeOK
<1>2. CtxPlain(x, stage)
  BY <1>1 DEF CtxPlain, Alike
<1>3. \/ x.interrupted
      \/ /\ x.sock # "closed" /\ x.frozen = NoState
         /\ liveClients'[x.id] = k
         /\ \A j \in Conns : j # k /\ conn[j].id = x.id => conn[j].awaits = NoClient
  <2>1. CASE conn[k].sock \in {"open", "closing"}
    BY <1>2, <2>1, ConnectedAlone DEF CtxPlain
  <2>2. QED
    BY <2>1 DEF Excused, Alike
<1>4. ASSUME TouchSession(k, x, member'), \A d \in Clients : d # x.id => member'[d] = member[d]
      PROVE  Keeps
  <2>1. Simple'
    BY <1>2, <1>4, TouchSimple
  <2>2. \A d \in Clients : Whole(d)' => Kind(d)
    BY <1>3, <1>4, TouchKinds
  <2>3. QED
    BY <2>1, <2>2 DEF Keeps
<1>5. CASE f.type = "join" /\ member' = [member EXCEPT ![x.id][f.room] = k] /\ TouchSession(k, x, member')
  BY <1>4, <1>5 DEF Ok, TypeOK
<1>6. CASE conn' = [conn EXCEPT ![k] = x] /\ UNCHANGED <<member, localSessions, pending, history>>
  BY <1>6, MovesOn
<1>7. CASE f.type = "leave" /\ member' = [member EXCEPT ![x.id][f.room] = NoConn] /\ TouchSession(k, x, member')
  BY <1>4, <1>7 DEF Ok, TypeOK
<1>8. CASE f.type = "ack" /\ TouchSession(k, x, member) /\ UNCHANGED member
  BY <1>4, <1>8
<1>9. CASE /\ f.type = "location" /\ conn' = [conn EXCEPT ![k] = [x EXCEPT !.awaits = x.id]]
           /\ UNCHANGED <<member, localSessions, pending, history>>
  <2> DEFINE y == [x EXCEPT !.awaits = x.id]
  <2>1. /\ y \in Ctx /\ y.id = x.id /\ y.step = x.step /\ y.sock = x.sock
        /\ y.frozen = x.frozen /\ y.touched = x.touched /\ y.interrupted = x.interrupted
    BY DEF Ctx
  <2>2. conn' = [conn EXCEPT ![k] = y]
    BY <1>9
  <2> HIDE DEF y
  <2>3. CASE x.sock # "closed"
    <3>1. Alike(y, conn[k])
      BY <2>1, <2>3 DEF Alike
    <3>2. QED
      BY <1>9, <2>1, <2>2, <3>1, MovesOn
  <2>4. CASE x.sock = "closed"
    <3>1. x.interrupted
      BY <1>3, <2>4
    <3>2. Only(k) /\ conn'[k] = y
      BY <2>1, <2>2 DEF Only, Ok, TypeOK
    <3>3. CtxPlain(conn'[k], stage')
      BY <1>2, <2>1, <3>2 DEF CtxPlain
    <3>4. CallsPlain' /\ lastRooms' \in [Clients -> SUBSET Rooms] /\ touched' \in [Clients -> BOOLEAN]
      BY <1>9 DEF Simple, CallsPlain, history
    <3>5. Simple'
      BY <3>2, <3>3, <3>4, OneSimple
    <3>6. ASSUME NEW d \in Clients, Whole(d)' PROVE Kind(d)
      <4>1. d # x.id
        BY <2>1, <3>1, <3>2, <3>6 DEF Whole
      <4>2. conn[k].id # d /\ conn'[k].id # d
        BY <2>1, <3>2, <4>1
      <4>3. /\ SavedKept(d) /\ lastRooms'[d] = lastRooms[d] /\ touched'[d] = touched[d]
            /\ member'[d] = member[d] /\ liveClients'[d] = liveClients[d]
            /\ localSessions'[d] = localSessions[d] /\ pending'[d] = pending[d] /\ stage' = stage
        BY <1>9 DEF SavedKept, history
      <4>4. QED
        BY <3>2, <4>2, <4>3, OthersRest
    <3>7. QED
      BY <3>5, <3>6 DEF Keeps
  <2>5. QED
    BY <2>3, <2>4
<1>10. QED
  BY <1>5, <1>6, <1>7, <1>8, <1>9 DEF Dispatch

LEMMA HandleFrameKeeps ==
  ASSUME Ok, Prompt, Simple, Plain, NEW k \in Conns, NEW f \in Frames, HandleFrame(k, f)
  PROVE  Keeps
<1>1. conn[k] \in Ctx /\ conn[k].step = "ready" /\ conn[k].id \in Clients /\ f \in Inboxes
  BY FrameTypes DEF HandleFrame, Ok, TypeOK, Named, CtxNamed, Ctx, Ids
<1>2. Excused(conn[k]) /\ f.type # "refresh"
  BY PlainFacts DEF HandleFrame, MayReceive, Excused
<1>3. Alike(conn[k], conn[k])
  BY DEF Alike
<1>4. Dispatch(k, conn[k], f) /\ UNCHANGED <<deployment, liveClients, calls, store, stage>>
  BY DEF HandleFrame
<1>5. QED
  BY <1>1, <1>2, <1>3, <1>4, DispatchKeeps

LEMMA HandleWaitingKeeps ==
  ASSUME Ok, Prompt, Simple, Plain, NEW k \in Conns, HandleWaiting(k)
  PROVE  Keeps
<1> DEFINE x == [conn[k] EXCEPT !.inbox = NoFrame]
<1>1. conn[k] \in Ctx /\ conn[k].step = "ready" /\ conn[k].id \in Clients /\ conn[k].inbox \in Inboxes
  BY DEF HandleWaiting, Ok, TypeOK, Named, CtxNamed, Ctx, Ids
<1>2. Excused(conn[k]) /\ conn[k].inbox.type # "refresh"
  BY PlainFacts DEF HandleWaiting, Prompt, CtxPrompt
<1>3. /\ x \in Ctx /\ x.id = conn[k].id /\ x.step = conn[k].step /\ x.sock = conn[k].sock
      /\ Alike(x, conn[k])
  BY <1>1 DEF Ctx, Alike, Inboxes
<1>4. Dispatch(k, x, conn[k].inbox) /\ UNCHANGED <<deployment, liveClients, calls, store, stage>>
  BY DEF HandleWaiting
<1> HIDE DEF x
<1>5. QED
  BY <1>1, <1>2, <1>3, <1>4, DispatchKeeps

LEMMA FenceCrossedKeeps ==
  ASSUME Ok, Prompt, Simple, Plain, NEW c \in Clients, FenceCrossed(c)
  PROVE  Keeps
<1> DEFINE k == liveClients[c]
<1>1. k \in Conns /\ conn[k] \in Ctx /\ conn[k].id = c /\ CtxPlain(conn[k], stage)
  BY SomeConn DEF FenceCrossed, Ok, TypeOK, Named, LiveNamed, Simple
<1>2. Excused(conn[k])
  BY PlainFacts DEF FenceCrossed, Prompt, LiveExcused
<1>3. /\ TouchSession(k, conn[k], member') /\ member' = member
      /\ UNCHANGED <<deployment, liveClients, calls, store, stage>>
  BY DEF FenceCrossed
<1>4. conn[k].step # "auth"
  BY <1>1, GatewayAssumption DEF Ok, Named, CtxNamed
<1>5. \/ conn[k].interrupted
      \/ /\ conn[k].sock # "closed" /\ conn[k].frozen = NoState
         /\ liveClients'[c] = k
         /\ \A j \in Conns : j # k /\ conn[j].id = c => conn[j].awaits = NoClient
  <2>1. CASE conn[k].sock \in {"open", "closing"}
    BY <1>1, <1>3, <2>1, ConnectedAlone DEF CtxPlain
  <2>2. QED
    BY <1>2, <2>1 DEF Excused
<1> HIDE DEF k
<1>6. Simple'
  BY <1>1, <1>3, <1>4, TouchSimple
<1>7. \A d \in Clients : Whole(d)' => Kind(d)
  BY <1>1, <1>3, <1>5, TouchKinds
<1>8. QED
  BY <1>6, <1>7 DEF Keeps

LEMMA LocationSettlesKeeps ==
  ASSUME Ok, Prompt, Simple, Plain, NEW k \in Conns, LocationSettles(k)
  PROVE  Keeps
<1> DEFINE x == conn[k]
           c == x.id
           y == [x EXCEPT !.awaits = NoClient]
<1>1. /\ x \in Ctx /\ x.awaits # NoClient /\ c \in Clients /\ c # NoClient /\ CtxPlain(x, stage)
      /\ x.step # "auth"
  BY GatewayAssumption DEF LocationSettles, Ok, TypeOK, Named, CtxNamed, Ctx, Ids, Simple
<1>2. /\ y \in Ctx /\ y.id = c /\ y.step = x.step /\ y.sock = x.sock /\ y.frozen = x.frozen
      /\ y.interrupted = x.interrupted /\ y.awaits = NoClient
  BY <1>1 DEF Ctx, Ids
<1>3. /\ TouchSession(k, y, member') /\ member' = member
      /\ UNCHANGED <<deployment, liveClients, calls, store, stage>>
  BY DEF LocationSettles
<1> HIDE DEF y
<1>4. CtxPlain(y, stage)
  BY <1>1, <1>2 DEF CtxPlain
<1>5. Simple'
  BY <1>1, <1>2, <1>3, <1>4, TouchSimple
<1>6. CASE x.interrupted \/ x.sock # "closed"
  <2>1. \/ y.interrupted
        \/ /\ y.sock # "closed" /\ y.frozen = NoState
           /\ liveClients'[y.id] = k
           /\ \A j \in Conns : j # k /\ conn[j].id = y.id => conn[j].awaits = NoClient
    <3>1. CASE x.sock # "closed"
      <4>1. x.sock \in {"open", "closing"}
        BY <1>1, <3>1 DEF CtxPlain, Ctx
      <4>2. QED
        BY <1>1, <1>2, <1>3, <4>1, ConnectedAlone DEF CtxPlain
    <3>2. QED
      BY <1>2, <1>6, <3>1
  <2>2. \A d \in Clients : Whole(d)' => Kind(d)
    BY <1>1, <1>2, <1>3, <2>1, TouchKinds
  <2>3. QED
    BY <1>5, <2>2 DEF Keeps
<1>7. CASE ~x.interrupted /\ x.sock = "closed"
  <2>1. x.frozen # NoState
    BY <1>1, <1>7 DEF CtxPlain
  <2>2. /\ Only(k) /\ Same(conn'[k], y) /\ pending' = [pending EXCEPT ![c] = k]
    BY <1>1, <1>2, <1>3, TouchType DEF Ok
  <2>3. localSessions' = [localSessions EXCEPT ![c] = x.frozen] /\ UNCHANGED history
    BY <1>2, <1>3, <1>7, <2>1 DEF TouchSession, CaptureState
  <2>4. \A d : SavedKept(d)
    BY <1>3 DEF SavedKept
  <2>5. ASSUME NEW d \in Clients, d # c PROVE Kind(d)
    <3>1. /\ conn[k].id # d /\ conn'[k].id # d /\ member'[d] = member[d] /\ liveClients'[d] = liveClients[d]
          /\ localSessions'[d] = localSessions[d] /\ pending'[d] = pending[d] /\ stage' = stage
          /\ lastRooms'[d] = lastRooms[d] /\ touched'[d] = touched[d]
      BY <1>1, <1>2, <1>3, <2>2, <2>3, <2>5 DEF Same, Ok, TypeOK, history
    <3>2. QED
      BY <2>2, <2>4, <3>1, OthersRest
  <2>6. ASSUME NEW d \in Clients, d = c, Whole(d)' PROVE Kind(d)
    <3>1. /\ conn'[k].id = d /\ conn'[k].frozen = x.frozen /\ conn'[k].sock = x.sock
          /\ conn'[k].interrupted = x.interrupted /\ conn'[k].awaits = NoClient
      BY <1>2, <2>2, <2>6 DEF Same
    <3>2. Whole(d)
      BY <2>2, <2>6, <3>1 DEF Whole, Only
    <3>3. liveClients[d] = NoConn
      <4> SUFFICES ASSUME liveClients[d] # NoConn PROVE FALSE
        OBVIOUS
      <4> DEFINE j == liveClients[d]
      <4>1. j \in Conns /\ conn[j].id = d
        BY SomeConn DEF Ok, TypeOK, Named, LiveNamed
      <4>2. Excused(conn[j])
        BY PlainFacts DEF Prompt, LiveExcused
      <4>3. conn[j].sock \in {"open", "closing"}
        BY <3>2, <4>1, <4>2 DEF Excused, Whole
      <4>4. j # k
        BY <1>7, <4>3
      <4> HIDE DEF j
      <4>5. QED
        BY <1>1, <2>6, <4>1, <4>3, <4>4, ConnectedAlone
    <3>4. \A j \in Conns : conn'[j].id = d => /\ conn[j].id = d /\ conn'[j].frozen = conn[j].frozen
                                              /\ conn'[j].sock = conn[j].sock
                                              /\ conn'[j].awaits # NoClient => conn[j].awaits # NoClient
      BY <2>2, <2>6, <3>1 DEF Only
    <3>5. /\ liveClients'[d] = NoConn /\ localSessions'[d] = x.frozen /\ pending'[d] = k
          /\ lastRooms'[d] = lastRooms[d] /\ touched'[d] = touched[d]
      BY <1>1, <1>3, <2>2, <2>3, <2>6, <3>3 DEF Ok, TypeOK, history
    <3>6. Late(d, k)
      BY <1>1, <1>7, <2>1, <2>6, <3>1, <3>2, <3>3, <3>4, <3>5 DEF Late
    <3>7. QED
      BY <3>6 DEF Kind
  <2>7. QED
    BY <1>5, <2>5, <2>6 DEF Keeps
<1>8. QED
  BY <1>6, <1>7

-------------------------------------------------------------------------------
(* Closes and saves *)

\* A pending save goes out.
LEMMA FlushSaves ==
  ASSUME Ok, NEW contexts \in [Conns -> Ctx], PendingNamed(pending, contexts), NEW c \in Clients,
         pending[c] # NoConn, Flush(c, contexts)
  PROVE  /\ Saved(calls', store, c, CaptureState(contexts[pending[c]], member))
         /\ \A d \in Clients : d # c => \A v : Saved(calls, store, d, v) => Saved(calls', store, d, v)
         /\ \A d \in Clients : d # c => pending'[d] = pending[d]
         /\ pending'[c] = NoConn
         /\ CallsPlain /\ stage' = stage => CallsPlain'
<1> DEFINE state == CaptureState(contexts[pending[c]], member)
           e == Call(c, state, "flush", NoConn)
<1>1. state \in State
  BY SomeConn, CaptureType DEF Ok, TypeOK, PendingNamed
<1>2. NoConn \in MaybeConn
  BY DEF MaybeConn
<1>3. calls' = Append(calls, e) /\ pending' = [pending EXCEPT ![c] = NoConn]
  BY DEF Flush
<1> HIDE DEF state
<1>4. e \in Calls /\ e.client = c /\ e.state = state /\ e.by = "flush"
  BY <1>1, <1>2, CallType
<1> HIDE DEF e
<1>5. calls \in Seq(Calls) /\ pending \in [Clients -> MaybeConn]
  BY DEF Ok, TypeOK
<1>6. Saved(calls', store, c, state)
  BY <1>3, <1>4, <1>5, SavedAppend
<1>7. ASSUME NEW d \in Clients, d # c, NEW v, Saved(calls, store, d, v) PROVE Saved(calls', store, d, v)
  BY <1>3, <1>4, <1>5, <1>7, SavedAppend
<1>8. ASSUME CallsPlain, stage' = stage PROVE CallsPlain'
  <2>1. /\ Len(calls) \in Nat /\ Len(calls') = Len(calls) + 1 /\ calls'[Len(calls) + 1] = e
        /\ \A i \in 1 .. Len(calls) : calls'[i] = calls[i]
    BY <1>3, <1>4, <1>5, AppendProperties, LenProperties
  <2>2. \A i \in 1 .. Len(calls') : i \in 1 .. Len(calls) \/ i = Len(calls) + 1
    BY <2>1
  <2>3. QED
    BY <1>4, <1>8, <2>1, <2>2 DEF CallsPlain
<1>9. QED
  BY <1>3, <1>5, <1>6, <1>7, <1>8 DEF state

LEMMA CloseKeeps ==
  ASSUME Ok, Prompt, Simple, Plain, NEW k \in Conns, Close(k)
  PROVE  Keeps
<1> DEFINE x == conn[k]
           frozen == CaptureState(x, member)
           b == x.step \in {"auth", "load"}
           z == [x EXCEPT !.sock = "closed", !.interrupted = b]
           y == [z EXCEPT !.frozen = frozen]
<1>1. /\ x \in Ctx /\ x.sock \in {"open", "closing"} /\ CtxPlain(x, stage) /\ x.frozen = NoState /\ ~x.interrupted
  BY DEF Close, Connected, Ok, TypeOK, Simple, CtxPlain
<1>2. /\ z \in Ctx /\ z.sock = "closed" /\ z.id = x.id
      /\ z.step = x.step /\ z.touched = x.touched /\ z.frozen = x.frozen
  <2>1. b \in BOOLEAN
    OBVIOUS
  <2> HIDE DEF b
  <2>2. QED
    BY <1>1, <2>1 DEF Ctx
<1>3. UNCHANGED <<deployment, stage, store>>
  BY DEF Close, Teardown, sessionVars
<1>4. CASE x.id = NoClient
  <2>1. conn' = [conn EXCEPT ![k] = z] /\ UNCHANGED <<member, liveClients, sessionVars, history>>
    BY <1>4 DEF Close, Ok, TypeOK
  <2> HIDE DEF z
  <2>2. Only(k) /\ conn'[k] = z
    BY <1>2, <2>1 DEF Only, Ok, TypeOK
  <2>3. CtxPlain(conn'[k], stage')
    BY <1>1, <1>2, <1>3, <1>4, <2>2 DEF CtxPlain
  <2>4. CallsPlain' /\ lastRooms' \in [Clients -> SUBSET Rooms] /\ touched' \in [Clients -> BOOLEAN]
    BY <1>3, <2>1 DEF Simple, CallsPlain, history, sessionVars
  <2>5. Simple'
    BY <1>3, <2>2, <2>3, <2>4, OneSimple
  <2>6. ASSUME NEW d \in Clients PROVE Kind(d)
    <3>1. conn[k].id # d /\ conn'[k].id # d
      BY <1>2, <1>4, <2>2, GatewayAssumption
    <3>2. /\ SavedKept(d) /\ lastRooms'[d] = lastRooms[d] /\ touched'[d] = touched[d]
          /\ member'[d] = member[d] /\ liveClients'[d] = liveClients[d]
          /\ localSessions'[d] = localSessions[d] /\ pending'[d] = pending[d] /\ stage' = stage
      BY <1>3, <2>1 DEF SavedKept, history, sessionVars
    <3>3. QED
      BY <2>2, <3>1, <3>2, OthersRest
  <2>7. QED
    BY <2>5, <2>6 DEF Keeps
<1>5. CASE x.id # NoClient
  <2> DEFINE c == x.id
  <2>1. c \in Clients /\ liveClients[c] = k /\ \A j \in Conns : j # k /\ conn[j].id = c => conn[j].awaits = NoClient
    BY <1>1, <1>5, ConnectedAlone DEF Ctx, Ids
  <2>2. frozen = Current(c) /\ frozen \in State
    BY <1>1, <2>1 DEF CaptureState, Current, State, RoomsIn
  <2> HIDE DEF frozen, z
  <2>3. y \in Ctx /\ y.frozen = frozen /\ y.sock = "closed" /\ y.id = c
        /\ y.step = x.step /\ y.touched = x.touched
    BY <1>2, <2>2 DEF Ctx, MaybeState
  <2>4. Teardown(k, c, [conn EXCEPT ![k].sock = "closed", ![k].interrupted = conn[k].step \in {"auth", "load"}])
    BY <1>5 DEF Close
  <2>5. conn' = [conn EXCEPT ![k] = y]
    BY <2>4 DEF Teardown, frozen, z, Ok, TypeOK
  <2> HIDE DEF y
  <2>6. /\ localSessions' = [localSessions EXCEPT ![c] = frozen]
        /\ liveClients' = [liveClients EXCEPT ![c] = NoConn]
        /\ member' = [member EXCEPT ![c] = [r \in Rooms |-> NoConn]]
        /\ lastRooms' = [lastRooms EXCEPT ![c] = RoomsIn(member, c)]
        /\ touched' = [touched EXCEPT ![c] = x.touched]
        /\ \/ pending[c] = NoConn /\ UNCHANGED <<calls, pending>>
           \/ pending[c] # NoConn /\ Flush(c, conn')
    BY <2>1, <2>4 DEF Teardown, LiveWithout, frozen
  <2>7. Only(k) /\ conn'[k] = y
    BY <2>3, <2>5 DEF Only, Ok, TypeOK
  <2>8. PendingNamed(pending, conn')
    <3>1. \A j \in Conns : conn'[j].id = conn[j].id
      BY <2>3, <2>7 DEF Only
    <3>2. QED
      BY <3>1, SomeConn DEF PendingNamed, Ok, Named, TypeOK
  <2>9. /\ IF pending[c] = NoConn THEN SavedKept(c)
           ELSE Saved(calls', store', c, CaptureState(conn'[pending[c]], member))
        /\ pending'[c] = NoConn
        /\ \A d \in Clients : d # c => SavedKept(d) /\ pending'[d] = pending[d]
        /\ CallsPlain'
    <3>1. CallsPlain
      BY DEF Simple
    <3>2. CASE pending[c] = NoConn /\ UNCHANGED <<calls, pending>>
      BY <1>3, <3>1, <3>2 DEF SavedKept, CallsPlain
    <3>3. CASE pending[c] # NoConn /\ Flush(c, conn')
      <4>1. /\ Saved(calls', store, c, CaptureState(conn'[pending[c]], member))
            /\ \A d \in Clients : d # c => \A v : Saved(calls, store, d, v) => Saved(calls', store, d, v)
            /\ \A d \in Clients : d # c => pending'[d] = pending[d]
            /\ pending'[c] = NoConn
            /\ CallsPlain'
        BY <1>3, <2>1, <2>7, <2>8, <3>1, <3>3, FlushSaves DEF Only
      <4>2. QED
        BY <1>3, <3>3, <4>1 DEF SavedKept
    <3>4. QED
      BY <2>6, <3>2, <3>3
  <2>10. CtxPlain(conn'[k], stage')
    BY <1>1, <1>3, <2>2, <2>3, <2>7, StateAssumption DEF CtxPlain
  <2>11. lastRooms' \in [Clients -> SUBSET Rooms] /\ touched' \in [Clients -> BOOLEAN]
    BY <1>1, <2>6 DEF Simple, RoomsIn, Ctx
  <2>12. Simple'
    BY <1>3, <2>7, <2>9, <2>10, <2>11, OneSimple
  <2>13. ASSUME NEW d \in Clients, d # c PROVE Kind(d)
    <3>1. conn[k].id # d /\ conn'[k].id # d
      BY <2>3, <2>7, <2>13
    <3>2. /\ member'[d] = member[d] /\ liveClients'[d] = liveClients[d]
          /\ localSessions'[d] = localSessions[d]
          /\ lastRooms'[d] = lastRooms[d] /\ touched'[d] = touched[d]
      BY <2>6, <2>13 DEF Ok, TypeOK, Simple
    <3>3. QED
      BY <1>3, <2>7, <2>9, <2>13, <3>1, <3>2, OthersRest
  <2>14. ASSUME NEW d \in Clients, d = c, Whole(d)' PROVE Kind(d)
    <3>1. \A j \in Conns : j # k => conn'[j] = conn[j]
      BY <2>7 DEF Only
    <3>2. Whole(d)
      BY <1>1, <2>14, <3>1 DEF Whole
    <3>3. /\ localSessions'[d] = Current(d) /\ liveClients'[d] = NoConn
          /\ lastRooms'[d] = RoomsIn(member, d) /\ touched'[d] = x.touched
      BY <2>2, <2>6, <2>14 DEF Ok, TypeOK, Simple
    <3>4. conn[k].id = d /\ conn'[k].id = d /\ conn'[k].frozen = Current(d)
      BY <2>2, <2>3, <2>7, <2>14
    <3>5. ClosedBy(d, k)
      BY <2>1, <2>9, <2>14, <3>1, <3>2, <3>3, <3>4 DEF ClosedBy
    <3>6. QED
      BY <3>5 DEF Kind
  <2>15. QED
    BY <2>12, <2>13, <2>14 DEF Keeps
<1>6. QED
  BY <1>4, <1>5

LEMMA TimerFiresKeeps ==
  ASSUME Ok, Simple, Plain, NEW c \in Clients, TimerFires(c)
  PROVE  Keeps
<1>1. /\ UNCHANGED <<deployment, conn, member, liveClients, localSessions, store, stage, history>>
      /\ pending[c] # NoConn /\ Flush(c, conn)
  BY DEF TimerFires
<1>2. /\ Saved(calls', store, c, CaptureState(conn[pending[c]], member))
      /\ \A d \in Clients : d # c => \A v : Saved(calls, store, d, v) => Saved(calls', store, d, v)
      /\ \A d \in Clients : d # c => pending'[d] = pending[d]
      /\ pending'[c] = NoConn
      /\ CallsPlain'
  BY <1>1, FlushSaves DEF Ok, TypeOK, Named, Simple
<1>3. Simple'
  BY <1>1, <1>2 DEF Simple, Plain, history
<1>4. \A d \in Clients : Still(d)
  BY <1>1 DEF Still, Alike, history
<1>5. Flushed(c)
  BY <1>1, <1>2, <1>4 DEF Flushed
<1>6. \A d \in Clients : d # c => Rests(d)
  BY <1>1, <1>2, <1>4 DEF Rests, SavedKept
<1>7. QED
  BY <1>3, <1>5, <1>6 DEF Keeps, Kind

\* The cached state of a live context that is connected is what it shows.
LEMMA LiveCurrent ==
  ASSUME Ok, Prompt, Simple, Plain, NEW c \in Clients, Whole(c), liveClients[c] # NoConn
  PROVE  CaptureState(conn[liveClients[c]], member) = Current(c)
<1> DEFINE k == liveClients[c]
<1>1. k \in Conns /\ conn[k].id = c /\ CtxPlain(conn[k], stage)
  BY SomeConn DEF Ok, TypeOK, Named, LiveNamed, Simple
<1>2. Excused(conn[k])
  BY PlainFacts DEF Prompt, LiveExcused
<1>3. conn[k].frozen = NoState
  BY <1>1, <1>2 DEF Excused, Whole, CtxPlain
<1>4. QED
  BY <1>1, <1>3 DEF CaptureState, Current

LEMMA AppendPlain ==
  ASSUME NEW q \in Seq(Calls), NEW e \in Calls, e.by = "all",
         \A i \in 1 .. Len(q) : q[i].by \notin {"migrate_flush", "migrate"}
  PROVE  \A i \in 1 .. Len(Append(q, e)) : Append(q, e)[i].by \notin {"migrate_flush", "migrate"}
<1> DEFINE p == Append(q, e)
<1>1. /\ Len(q) \in Nat /\ Len(p) = Len(q) + 1 /\ p[Len(q) + 1] = e
      /\ \A i \in 1 .. Len(q) : p[i] = q[i]
  BY AppendProperties, LenProperties
<1> HIDE DEF p
<1>2. \A i \in 1 .. Len(p) : i \in 1 .. Len(q) \/ i = Len(q) + 1
  BY <1>1
<1>3. \A i \in 1 .. Len(p) : p[i].by \notin {"migrate_flush", "migrate"}
  BY <1>1, <1>2
<1>4. QED
  BY <1>3 DEF p

\* saveAllSessions() goes on to the next live context or ends.
LEMMA SaveNextKinds ==
  ASSUME Ok, Prompt, Simple, Plain, NEW q \in Seq(Calls), NEW progress, SaveNext(q, progress),
         \A i \in 1 .. Len(q) : q[i].by \notin {"migrate_flush", "migrate"},
         ~Has("rejects") => \A d \in Clients : \A v : Saved(calls, store, d, v) => Saved(q, store', d, v),
         UNCHANGED <<conn, member, liveClients, history>>,
         \A d \in Clients : pending'[d] = pending[d] /\ (pending[d] = NoConn \/ stage \notin Early)
  PROVE  /\ \A d \in Clients : Whole(d)' => Kind(d)
         /\ \A i \in 1 .. Len(calls') : calls'[i].by \notin {"migrate_flush", "migrate"}
<1>1. \A d \in Clients : Still(d)
  BY DEF Still, Alike, history
<1>2. CASE calls' = q /\ UNCHANGED localSessions
  <2>1. \A d \in Clients : Rests(d)
    BY <1>1, <1>2 DEF Rests, SavedKept
  <2>2. QED
    BY <1>2, <2>1 DEF Kind
<1>3. ASSUME NEW c \in Clients, liveClients[c] # NoConn, NEW state, state = CaptureState(conn[liveClients[c]], member),
             localSessions' = [localSessions EXCEPT ![c] = state],
             calls' = Append(q, Call(c, state, "all", liveClients[c]))
      PROVE  /\ \A d \in Clients : Whole(d)' => Kind(d)
             /\ \A i \in 1 .. Len(calls') : calls'[i].by \notin {"migrate_flush", "migrate"}
  <2> DEFINE e == Call(c, state, "all", liveClients[c])
  <2>1. state \in State /\ liveClients[c] \in MaybeConn
    BY <1>3, SomeConn, CaptureType, GatewayAssumption DEF Ok, TypeOK, Named, LiveNamed
  <2>2. e \in Calls /\ e.client = c /\ e.state = state /\ e.by = "all"
    BY <2>1, CallType
  <2>3. calls' = Append(q, e)
    BY <1>3
  <2> HIDE DEF e
  <2>4. \A i \in 1 .. Len(calls') : calls'[i].by \notin {"migrate_flush", "migrate"}
    BY <2>2, <2>3, AppendPlain
  <2>5. ASSUME NEW d \in Clients, d # c PROVE Kind(d)
    <3>1. ASSUME ~Has("rejects"), NEW v, Saved(calls, store, d, v) PROVE Saved(calls', store', d, v)
      <4>1. Saved(q, store', d, v)
        BY <3>1
      <4>2. QED
        BY <2>2, <2>3, <2>5, <4>1, SavedAppend
    <3>2. localSessions'[d] = localSessions[d]
      BY <1>3, <2>5 DEF Ok, TypeOK
    <3>3. Rests(d)
      BY <1>1, <3>1, <3>2 DEF Rests, SavedKept
    <3>4. QED
      BY <3>3 DEF Kind
  <2>6. ASSUME Whole(c)' PROVE Kind(c)
    <3>1. Whole(c)
      BY <2>6 DEF Whole
    <3>2. state = Current(c)
      BY <1>3, <3>1, LiveCurrent
    <3>3. Saved(calls', store', c, Current(c))
      BY <2>2, <2>3, <3>2, SavedAppend
    <3>4. localSessions'[c] = Current(c)
      BY <1>3, <3>2 DEF Ok, TypeOK
    <3>5. Stored(c)
      BY <1>1, <1>3, <3>3, <3>4 DEF Stored
    <3>6. QED
      BY <3>5 DEF Kind
  <2>7. QED
    BY <2>4, <2>5, <2>6
<1>4. QED
  BY <1>2, <1>3 DEF SaveNext

LEMMA SaveSettlesKeeps ==
  ASSUME Ok, Prompt, Simple, Plain, NEW ok \in BOOLEAN, SaveSettles(ok)
  PROVE  Keeps
<1> DEFINE e == Head(calls)
           q == Tail(calls)
<1>1. /\ calls # <<>> /\ calls \in Seq(Calls) /\ UNCHANGED <<deployment, member, liveClients, pending, stage, history>>
      /\ CallsPlain /\ store \in [Clients -> MaybeState]
  BY DEF SaveSettles, Ok, TypeOK, Simple
<1>2. /\ Len(calls) \in Nat /\ Len(calls) >= 1 /\ e = calls[1] /\ q \in Seq(Calls) /\ Len(q) = Len(calls) - 1
      /\ \A i \in 1 .. Len(q) : q[i] = calls[i + 1]
  BY <1>1, HeadTailProperties, LenProperties, EmptySeq
<1>3. Continues(e, q, ok)
  BY DEF SaveSettles
<1>4. ASSUME ~Has("rejects"), NEW d \in Clients, NEW v, Saved(calls, store, d, v) PROVE Saved(q, store', d, v)
  <2>1. store' = [store EXCEPT ![Head(calls).client] = Head(calls).state]
    BY <1>4 DEF SaveSettles
  <2>2. QED
    BY <1>1, <1>4, <2>1, SavedTail
<1> HIDE DEF e, q
<1>5. /\ e.by \notin {"migrate_flush", "migrate"} /\ (e.by \in {"all_flush", "all"} => stage \in Ending)
      /\ \A i \in 1 .. Len(q) : q[i].by \notin {"migrate_flush", "migrate"}
      /\ \A i \in 1 .. Len(q) : q[i].by \in {"all_flush", "all"} => stage \in Ending
  <2>1. 1 \in 1 .. Len(calls) /\ \A i \in 1 .. Len(q) : i + 1 \in 1 .. Len(calls)
    BY <1>2
  <2>2. QED
    BY <1>1, <1>2, <2>1 DEF CallsPlain
<1>6. ASSUME CallsPlain', conn' = conn PROVE Simple'
  BY <1>1, <1>6 DEF Simple, Plain, history
<1>7. CASE calls' = q /\ UNCHANGED <<conn, localSessions>>
  <2>1. CallsPlain'
    BY <1>1, <1>5, <1>7 DEF CallsPlain
  <2>2. \A d \in Clients : Still(d)
    BY <1>1, <1>7 DEF Still, Alike, history
  <2>3. \A d \in Clients : Rests(d)
    BY <1>1, <1>4, <1>7, <2>2 DEF Rests, SavedKept
  <2>4. QED
    BY <1>6, <1>7, <2>1, <2>3 DEF Keeps, Kind
<1>8. ASSUME e.by \in {"all_flush", "all"}, NEW progress, SaveNext(q, progress), conn' = conn
      PROVE  Keeps
  <2>1. stage \in Ending /\ stage \notin Early /\ \A d \in Clients : pending'[d] = pending[d]
    BY <1>1, <1>5, <1>8 DEF Early, Ending
  <2>2. /\ \A d \in Clients : Whole(d)' => Kind(d)
        /\ \A i \in 1 .. Len(calls') : calls'[i].by \notin {"migrate_flush", "migrate"}
    BY <1>1, <1>2, <1>4, <1>5, <1>8, <2>1, SaveNextKinds
  <2>3. CallsPlain'
    BY <1>1, <2>1, <2>2 DEF CallsPlain
  <2>4. QED
    BY <1>6, <1>8, <2>2, <2>3 DEF Keeps
<1>9. QED
  BY <1>3, <1>5, <1>7, <1>8 DEF Continues

LEMMA NotifyKeeps ==
  ASSUME Ok, Prompt, Simple, Plain, Notify
  PROVE  Keeps
<1> DEFINE dirty == {c \in Clients : pending[c] # NoConn}
<1>1. /\ UNCHANGED <<deployment, conn, member, liveClients, store, history>> /\ pending' = Nobody
      /\ stage' = "notifying" /\ calls \in Seq(Calls) /\ CallsPlain
  BY DEF Notify, Ok, TypeOK, Simple
<1>2. \A d \in Clients : pending'[d] = NoConn
  BY <1>1 DEF Nobody
<1>3. ASSUME \A i \in 1 .. Len(calls') : calls'[i].by \notin {"migrate_flush", "migrate"} PROVE Simple'
  <2>1. CallsPlain'
    BY <1>1, <1>3 DEF CallsPlain, Ending
  <2>2. ASSUME NEW k \in Conns PROVE CtxPlain(conn'[k], stage')
    <3>1. conn[k].step # "auth"
      BY DEF Notify, Simple, CtxPlain
    <3>2. CtxPlain(conn[k], stage)
      BY DEF Simple
    <3>3. QED
      BY <1>1, <3>1, <3>2 DEF CtxPlain
  <2>3. QED
    BY <1>1, <2>1, <2>2 DEF Simple, Plain, history
<1>4. CASE dirty = {} /\ SaveNext(calls, NotSaving)
  <2>1. \A d \in Clients : pending'[d] = pending[d] /\ pending[d] = NoConn
    BY <1>2, <1>4
  <2>2. /\ \A d \in Clients : Whole(d)' => Kind(d)
        /\ \A i \in 1 .. Len(calls') : calls'[i].by \notin {"migrate_flush", "migrate"}
    <3>1. \A i \in 1 .. Len(calls) : calls[i].by \notin {"migrate_flush", "migrate"}
      BY <1>1 DEF CallsPlain
    <3>2. \A d \in Clients : \A v : Saved(calls, store, d, v) => Saved(calls, store', d, v)
      BY <1>1
    <3>3. QED
      BY <1>1, <1>4, <2>1, <3>1, <3>2, SaveNextKinds
  <2>3. QED
    BY <1>3, <2>2 DEF Keeps
<1>5. CASE /\ \E order \in [1 .. Cardinality(dirty) -> dirty] :
                /\ {order[i] : i \in DOMAIN order} = dirty
                /\ calls' = calls \o [i \in DOMAIN order |->
                     Call(order[i], CaptureState(conn[pending[order[i]]], member), "all_flush", NoConn)]
           /\ UNCHANGED <<localSessions, handed, saving>>
  <2>1. PICK order \in [1 .. Cardinality(dirty) -> dirty] :
          /\ {order[i] : i \in DOMAIN order} = dirty
          /\ calls' = calls \o [i \in DOMAIN order |->
               Call(order[i], CaptureState(conn[pending[order[i]]], member), "all_flush", NoConn)]
    BY <1>5
  <2> DEFINE more == [i \in DOMAIN order |->
                        Call(order[i], CaptureState(conn[pending[order[i]]], member), "all_flush", NoConn)]
             n == Cardinality(dirty)
  <2>2. n \in Nat
    BY FS_CardinalityType DEF Ok, TypeOK, Pending
  <2> HIDE DEF n
  <2>3. DOMAIN order = 1 .. n
    BY DEF n
  <2>4. ASSUME NEW i \in 1 .. n
        PROVE  /\ more[i] \in Calls /\ more[i].by = "all_flush" /\ more[i].client = order[i]
               /\ more[i].state = CaptureState(conn[pending[order[i]]], member)
    <3>1. order[i] \in Clients /\ pending[order[i]] # NoConn
      BY DEF n
    <3>2. CaptureState(conn[pending[order[i]]], member) \in State
      BY <3>1, SomeConn, CaptureType DEF Ok, TypeOK, Named, PendingNamed
    <3>3. NoConn \in MaybeConn
      BY DEF MaybeConn
    <3>4. more[i] = Call(order[i], CaptureState(conn[pending[order[i]]], member), "all_flush", NoConn)
      BY <2>3
    <3>5. QED
      BY <3>1, <3>2, <3>3, <3>4, CallType
  <2>5. DOMAIN more = 1 .. n /\ more = [i \in 1 .. n |-> more[i]]
    BY <2>3
  <2>6. calls' = calls \o more
    BY <2>1
  <2> HIDE DEF more
  <2>7. more \in Seq(Calls) /\ Len(more) = n
    <3>1. more \in [1 .. n -> Calls]
      BY <2>4, <2>5
    <3>2. more \in Seq(Calls)
      BY <2>2, <3>1, SeqDef
    <3>3. QED
      BY <2>2, <2>5, <3>2, LenProperties
  <2>8. \A i \in 1 .. Len(calls') : calls'[i].by \notin {"migrate_flush", "migrate"}
    <3>1. /\ Len(calls) \in Nat /\ Len(calls') = Len(calls) + n
          /\ \A i \in 1 .. Len(calls) : calls'[i] = calls[i]
          /\ \A i \in 1 .. Len(calls') : i > Len(calls) => calls'[i] = more[i - Len(calls)]
      BY <1>1, <2>6, <2>7, ConcatParts
    <3>2. \A i \in 1 .. Len(calls') : i \in 1 .. Len(calls) \/ (i > Len(calls) /\ i - Len(calls) \in 1 .. n)
      BY <2>2, <3>1
    <3>3. QED
      BY <1>1, <2>4, <3>1, <3>2 DEF CallsPlain
  <2>9. \A d \in Clients : Still(d)
    BY <1>1 DEF Still, Alike, history
  <2>10. ASSUME NEW d \in Clients, pending[d] = NoConn PROVE Kind(d)
    <3>1. \A i \in 1 .. n : order[i] # d
      BY <2>10 DEF n
    <3>2. \A i \in 1 .. Len(more) : more[i].client # d
      BY <2>4, <2>7, <3>1
    <3>3. ASSUME NEW v, Saved(calls, store, d, v) PROVE Saved(calls', store', d, v)
      <4>1. Saved(calls \o more, store, d, v)
        BY <1>1, <2>7, <3>2, <3>3, SavedConcat
      <4>2. QED
        BY <1>1, <2>6, <4>1
    <3>4. Rests(d)
      BY <1>2, <1>5, <2>9, <2>10, <3>3 DEF Rests, SavedKept
    <3>5. QED
      BY <3>4 DEF Kind
  <2>11. ASSUME NEW d \in Clients, pending[d] # NoConn PROVE Kind(d)
    <3> DEFINE v == CaptureState(conn[pending[d]], member)
    <3>1. \A i \in 1 .. Len(more) : more[i].client = d => more[i].state = v
      BY <2>4, <2>7
    <3>2. PICK i \in 1 .. n : order[i] = d
      BY <2>1, <2>3, <2>11
    <3>3. ~ \A j \in 1 .. Len(more) : more[j].client # d
      BY <2>4, <2>7, <3>2
    <3> HIDE DEF v
    <3>4. Saved(calls \o more, store, d, v)
      BY <1>1, <2>7, <3>1, <3>3, SavedConcat
    <3>5. Saved(calls', store', d, v)
      BY <1>1, <2>6, <3>4
    <3>6. Flushed(d)
      BY <1>2, <1>5, <2>9, <2>11, <3>5 DEF Flushed, v
    <3>7. QED
      BY <3>6 DEF Kind
  <2>12. QED
    BY <1>3, <2>8, <2>10, <2>11 DEF Keeps
<1>6. QED
  BY <1>4, <1>5 DEF Notify

LEMMA CloseConnectionsKeeps ==
  ASSUME Ok, Simple, Plain, CloseConnections
  PROVE  Keeps
<1>1. /\ conn' = [k \in Conns |-> CloseSocket(conn[k])] /\ stage = "draining" /\ stage' = "closing"
      /\ UNCHANGED <<deployment, member, liveClients, localSessions, pending, calls, store, history>>
  BY DEF CloseConnections, sessionVars
<1>2. ASSUME NEW k \in Conns
      PROVE  conn'[k].id = conn[k].id /\ Alike(conn'[k], conn[k]) /\ CtxPlain(conn'[k], stage')
  <2>1. conn[k] \in Ctx /\ conn'[k] = CloseSocket(conn[k]) /\ CtxPlain(conn[k], stage)
    BY <1>1 DEF Ok, TypeOK, Simple
  <2>2. CASE conn[k].sock = "open"
    <3> DEFINE y == [conn[k] EXCEPT !.sock = "closing"]
    <3>1. /\ y.step = conn[k].step /\ y.sock = "closing" /\ y.id = conn[k].id /\ y.frozen = conn[k].frozen
          /\ y.awaits = conn[k].awaits /\ y.touched = conn[k].touched /\ y.interrupted = conn[k].interrupted
      BY <2>1 DEF Ctx
    <3>2. conn'[k] = y
      BY <2>1, <2>2 DEF CloseSocket
    <3> HIDE DEF y
    <3>3. QED
      BY <1>1, <2>1, <2>2, <3>1, <3>2 DEF Alike, CtxPlain
  <2>3. CASE conn[k].sock # "open"
    <3>1. conn'[k] = conn[k]
      BY <2>1, <2>3 DEF CloseSocket
    <3>2. QED
      BY <1>1, <2>1, <3>1 DEF Alike, CtxPlain
  <2>4. QED
    BY <2>2, <2>3
<1>3. \A d \in Clients : Kind(d)
  <2>1. stage \notin Early
    BY <1>1 DEF Early
  <2>2. QED
    BY <1>1, <1>2, <2>1, AllRest
<1>4. CallsPlain'
  BY <1>1 DEF Simple, CallsPlain, Ending
<1>5. Simple'
  BY <1>1, <1>2, <1>4 DEF Simple, history
<1>6. QED
  BY <1>3, <1>5 DEF Keeps

\* A step of the process that only changes its stage, with no authentication under way.
LEMMA StageKeeps ==
  ASSUME Simple, Plain, UNCHANGED <<deployment, conn, member, liveClients, sessionVars, history>>,
         stage' = stage \/ \A k \in Conns : conn[k].step # "auth",
         stage \in Early => stage' \in Early,
         stage \in Ending => stage' \in Ending
  PROVE  Keeps
<1>1. UNCHANGED <<deployment, conn, member, liveClients, localSessions, pending, calls, store, history>>
  BY DEF sessionVars
<1>2. \A d \in Clients : Kind(d)
  <2>1. \A k \in Conns : conn'[k].id = conn[k].id /\ Alike(conn'[k], conn[k])
    BY <1>1 DEF Alike
  <2>2. QED
    BY <1>1, <2>1, AllRest
<1>3. CallsPlain /\ \A k \in Conns : CtxPlain(conn[k], stage)
  BY DEF Simple
<1>4. CallsPlain'
  BY <1>1, <1>3 DEF CallsPlain
<1>5. \A k \in Conns : CtxPlain(conn'[k], stage')
  BY <1>1, <1>3 DEF CtxPlain
<1>6. Simple'
  BY <1>1, <1>4, <1>5 DEF Simple, history
<1>7. QED
  BY <1>2, <1>6 DEF Keeps

LEMMA ExitKeeps ==
  ASSUME Ok, Simple, Plain, Exit
  PROVE  Keeps
<1>1. /\ \A k \in Conns : conn'[k].id = NoClient /\ conn'[k].step \in {"none", "gone"} /\ conn'[k].frozen = NoState
      /\ liveClients' = Nobody /\ calls' = <<>> /\ deployment' = deployment
  BY ExitOk
<1>2. pending' = Nobody /\ localSessions' = NoStates /\ UNCHANGED history
  BY DEF Exit
<1>3. ASSUME NEW k \in Conns PROVE ~conn'[k].interrupted
  <2> DEFINE gone == [NoSocket EXCEPT !.step = "gone", !.sock = "closed"]
  <2>1. NoSocket.interrupted = FALSE /\ gone.interrupted = FALSE
    BY DEF NoSocket
  <2>2. conn'[k] = NoSocket \/ conn'[k] = gone
    BY DEF Exit
  <2> HIDE DEF gone
  <2>3. QED
    BY <2>1, <2>2
<1>4. \A k \in Conns : CtxPlain(conn'[k], stage')
  BY <1>1, <1>3 DEF CtxPlain
<1>5. CallsPlain'
  BY <1>1 DEF CallsPlain
<1>6. Simple'
  BY <1>1, <1>2, <1>4, <1>5 DEF Simple, history
<1>7. ASSUME NEW d \in Clients PROVE Kind(d)
  <2>1. Forgotten(d)
    BY <1>1, <1>2, GatewayAssumption DEF Forgotten, Nobody, NoStates
  <2>2. QED
    BY <2>1 DEF Kind
<1>8. QED
  BY <1>6, <1>7 DEF Keeps

LEMMA InitRemembering == Init => Simple /\ Remembering
<1> SUFFICES ASSUME Init PROVE Simple /\ Remembering
  OBVIOUS
<1>1. ASSUME NEW k \in Conns
      PROVE  /\ conn[k].id = NoClient /\ conn[k].step = "none" /\ conn[k].frozen = NoState /\ conn[k].interrupted = FALSE
             /\ conn[k].sock = "none"
  BY DEF Init, NoSocket
<1>2. CallsPlain
  BY DEF Init, CallsPlain
<1>3. Simple
  <2>1. \A k \in Conns : CtxPlain(conn[k], stage)
    BY <1>1 DEF CtxPlain
  <2>2. QED
    BY <1>2, <2>1 DEF Simple, Init
<1>4. ASSUME NEW c \in Clients PROVE Memory(c) /\ OnItsWay(c)
  <2>1. /\ liveClients[c] = NoConn /\ pending[c] = NoConn /\ localSessions[c] = NoState
        /\ \A k \in Conns : conn[k].id # c
    BY <1>1, GatewayAssumption DEF Init, Nobody, NoStates
  <2>2. QED
    BY <2>1 DEF Memory, OnItsWay
<1>5. QED
  BY <1>3, <1>4 DEF Remembering

LEMMA NextKeeps ==
  ASSUME Ok, Prompt, Simple, Plain, Next
  PROVE  Keeps
<1>1. Ordinary /\ ~Has("refresh") /\ ~Has("migrate") /\ ~Has("jwks")
  BY PlainFacts
<1>2. deployment.clients \subseteq Clients /\ Blobs \subseteq MaybeState
  BY BlobsTyped
<1>3. ASSUME NEW k \in Conns, AuthFails(k) \/ AuthSucceeds(k) \/ RefreshSettles(k) \/ HandleWaiting(k)
      PROVE  Keeps
  <2>1. ~RefreshSettles(k)
    BY <1>1 DEF RefreshSettles, Prompt, CtxPrompt
  <2>2. QED
    BY <1>3, <2>1, AuthFailsKeeps, AuthSucceedsKeeps, HandleWaitingKeeps
<1>4. ASSUME NEW k \in Conns, NEW c \in deployment.clients, NEW blob \in Blobs,
             NEW cookie \in BOOLEAN, Connection(k, c, blob, cookie)
      PROVE  Keeps
  <2>1. c \in Clients /\ blob \in MaybeState
    BY <1>2 DEF MaybeState
  <2>2. QED
    BY <1>4, <2>1, ConnectionKeeps
<1>5. ASSUME NEW k \in Conns, Idle, LoadSettles(k) \/ LocationSettles(k) \/ Close(k)
      PROVE  Keeps
  BY <1>5, LoadSettlesKeeps, LocationSettlesKeeps, CloseKeeps
<1>6. ASSUME NEW k \in Conns, NEW f \in Frames, FrameWaits(k, f) \/ HandleFrame(k, f)
      PROVE  Keeps
  BY <1>6, FrameWaitsKeeps, HandleFrameKeeps
<1>7. ASSUME NEW c \in Clients, FenceCrossed(c) \/ TimerFires(c) \/ MigrateClient(c)
      PROVE  Keeps
  <2>1. ~MigrateClient(c)
    BY <1>1 DEF MigrateClient
  <2>2. QED
    BY <1>7, <2>1, FenceCrossedKeeps, TimerFiresKeeps
<1>8. ASSUME NEW ok \in BOOLEAN, SaveSettles(ok)
      PROVE  Keeps
  BY <1>8, SaveSettlesKeeps
<1>9. CASE Notify \/ CloseConnections
  BY <1>9, NotifyKeeps, CloseConnectionsKeeps
<1>10. CASE Idle /\ Signal
  <2>1. \A k \in Conns : conn[k].step # "auth"
    BY <1>1, <1>10 DEF Idle, Urgent
  <2>2. QED
    BY <1>10, <2>1, StageKeeps DEF Signal, Early, Ending
<1>11. CASE Drain \/ Restart
  <2>1. \A k \in Conns : conn[k].step # "auth"
    BY <1>11 DEF Drain, Restart, Simple, CtxPlain
  <2>2. QED
    BY <1>11, <2>1, StageKeeps DEF Drain, Restart, Early, Ending
<1>12. CASE WssCloses \/ ForceExit \/ Crash
  BY <1>12, ExitKeeps DEF WssCloses, ForceExit, Crash
<1>13. QED
  BY <1>3, <1>4, <1>5, <1>6, <1>7, <1>8, <1>9, <1>10, <1>11, <1>12 DEF Next, Event

\* No step loses what is remembered.
LEMMA NextRemembering ==
  Ok /\ Prompt /\ Simple /\ Remembering /\ [Next]_vars => Simple' /\ Remembering'
<1> SUFFICES ASSUME Ok, Prompt, Simple, Remembering, [Next]_vars PROVE Simple' /\ Remembering'
  OBVIOUS
<1>1. Ok' /\ deployment' = deployment
  BY NextOk, DeploymentKept
<1>2. Plain' <=> Plain
  BY <1>1 DEF Plain
<1>3. CASE ~Plain
  BY <1>2, <1>3 DEF Simple, Remembering
<1>4. CASE Plain
  <2>1. Keeps
    <3>1. CASE Next
      BY <1>4, <3>1, NextKeeps
    <3>2. CASE UNCHANGED vars
      BY <1>4, <3>2, StageKeeps DEF vars
    <3>3. QED
      BY <3>1, <3>2
  <2>2. QED
    BY <1>1, <1>4, <2>1, KindsRemember DEF Keeps
<1>5. QED
  BY <1>3, <1>4

LEMMA RememberingOk ==
  Ok /\ Remembering => RoomsRemembered /\ NothingUnsaved
<1> SUFFICES ASSUME Ok, Remembering PROVE RoomsRemembered /\ NothingUnsaved
  OBVIOUS
<1>1. ASSUME NEW c \in Clients, Orderly(c)
      PROVE  Memory(c) /\ (~Has("rejects") => OnItsWay(c))
  <2>1. Plain /\ Whole(c)
    BY <1>1 DEF Orderly, Plain, Whole
  <2>2. QED
    BY <2>1 DEF Remembering
<1>2. RoomsRemembered
  <2> SUFFICES ASSUME NEW c \in Clients, Orderly(c), localSessions[c] # NoState,
                      liveClients[c] # NoConn => conn[liveClients[c]].touched
               PROVE  localSessions[c].rooms = lastRooms[c]
    BY DEF RoomsRemembered
  <2>1. Memory(c)
    BY <1>1
  <2>2. Current(c).rooms = RoomsIn(member, c)
    BY DEF Current
  <2>3. QED
    BY <2>1, <2>2 DEF Memory
<1>3. NothingUnsaved
  <2> SUFFICES ASSUME NEW c \in Clients, Orderly(c), ~Has("rejects"), localSessions[c] # NoState, touched[c],
                      pending[c] = NoConn, \A i \in 1 .. Len(calls) : calls[i].client # c
               PROVE  store[c] = localSessions[c]
    BY DEF NothingUnsaved
  <2>1. OnItsWay(c)
    BY <1>1
  <2>2. Saved(calls, store, c, localSessions[c])
    BY <2>1 DEF OnItsWay
  <2>3. QED
    BY <2>2 DEF Saved
<1>4. QED
  BY <1>2, <1>3

-------------------------------------------------------------------------------
(* Theorems *)

\* The session contexts, memberships, saves and stored states keep their types, and every
\* context that a save or a live entry points to has the id it is used for.
THEOREM TypesAndNames == Spec => [](TypeOK /\ Named)
<1>1. Init => Ok
  BY InitOk
<1>2. Ok /\ [Next]_vars => Ok'
  BY NextOk
<1>3. Ok => TypeOK /\ Named
  BY DEF Ok
<1>4. QED
  BY <1>1, <1>2, <1>3, PTL DEF Spec

\* liveClients is exact: registerLive(), unregisterLive() and the id change of a refreshed
\* token leave the newest connection of an id live while it is connected, and no context
\* whose socket has closed.
THEOREM LiveExact == Spec => []LiveIsConnected
<1>1. Init => Ok /\ Prompt
  BY InitOk, InitPrompt
<1>2. Ok /\ Prompt /\ [Next]_vars => (Ok /\ Prompt)'
  BY NextOk, NextPrompt
<1>3. Ok /\ Prompt => LiveIsConnected
  <2> SUFFICES ASSUME Ok, Prompt, Ordinary PROVE LiveIsConnected
    BY DEF LiveIsConnected, Ordinary
  <2>1. LiveExcused /\ NewestLive
    BY DEF Prompt
  <2>2. ASSUME NEW c \in Clients, liveClients[c] # NoConn
        PROVE  /\ conn[liveClients[c]].id = c
               /\ liveClients[c] \in Connected \/ conn[liveClients[c]].interrupted
    BY <2>1, <2>2, SomeConn DEF LiveExcused, Excused, Connected, Ok, TypeOK, Named, LiveNamed
  <2>3. QED
    BY <2>1, <2>2 DEF LiveIsConnected, NewestLive
<1>4. QED
  BY <1>1, <1>2, <1>3, PTL DEF Spec

\* The close handlers, together with restores, late frames and id changes that run after
\* them, leave no room with a socket that has closed, but for a close during resumption.
THEOREM RoomsTornDown == Spec => []TornDown
<1>1. Init => Ok /\ Prompt
  BY InitOk, InitPrompt
<1>2. Ok /\ Prompt /\ [Next]_vars => (Ok /\ Prompt)'
  BY NextOk, NextPrompt
<1>3. Ok /\ Prompt => TornDown
  <2> SUFFICES ASSUME Ok, Prompt, Ordinary, NEW c \in Clients, NEW r \in Rooms, member[c][r] # NoConn
               PROVE  member[c][r] \in Connected \/ conn[member[c][r]].interrupted
    BY DEF TornDown, Ordinary
  <2>1. member[c][r] \in Conns
    BY DEF Ok, TypeOK, MaybeConn
  <2>2. Excused(conn[member[c][r]])
    BY DEF Prompt, MembersNamed
  <2>3. QED
    BY <2>1, <2>2 DEF Excused, Connected
<1>4. QED
  BY <1>1, <1>2, <1>3, PTL DEF Spec

\* The migration and the shutdown hand out a blob only after its save was answered, and no
\* later save removes the entry.  A crash or an exit keeps it in a shared store, and takes
\* a store in memory away together with what was handed out of it.
THEOREM HandedResumable == Spec => []HandedIsResumable
<1>1. Init => Ok /\ Handable
  BY InitOk, InitHandable
<1>2. Ok /\ Handable /\ [Next]_vars => (Ok /\ Handable)'
  BY NextOk, NextHandable
<1>3. Handable => HandedIsResumable
  BY DEF Handable, HandedStored, HandedIsResumable
<1>4. QED
  BY <1>1, <1>2, <1>3, PTL DEF Spec

\* What touchSession(), the teardown and saveAllSessions() leave in the local cache are the
\* rooms of the client at its latest change: a handler, a timer or a save that runs after
\* the close works on the frozen state and never on the emptied membership.
THEOREM RoomsAlwaysRemembered == Spec => []RoomsRemembered
<1>1. Init => Ok /\ Prompt /\ Simple /\ Remembering
  BY InitOk, InitPrompt, InitRemembering
<1>2. Ok /\ Prompt /\ Simple /\ Remembering /\ [Next]_vars => (Ok /\ Prompt /\ Simple /\ Remembering)'
  BY NextOk, NextPrompt, NextRemembering
<1>3. Ok /\ Remembering => RoomsRemembered
  BY RememberingOk
<1>4. QED
  BY <1>1, <1>2, <1>3, PTL DEF Spec

\* With a store that answers, the debounced save, flush(), flushAll() and the loop of
\* saveAllSessions() together send every cached state in the order of the changes: when
\* nothing is scheduled or under way, the store has what the cache has.
THEOREM AlwaysSaved == Spec => []NothingUnsaved
<1>1. Init => Ok /\ Prompt /\ Simple /\ Remembering
  BY InitOk, InitPrompt, InitRemembering
<1>2. Ok /\ Prompt /\ Simple /\ Remembering /\ [Next]_vars => (Ok /\ Prompt /\ Simple /\ Remembering)'
  BY NextOk, NextPrompt, NextRemembering
<1>3. Ok /\ Remembering => NothingUnsaved
  BY RememberingOk
<1>4. QED
  BY <1>1, <1>2, <1>3, PTL DEF Spec

===============================================================================

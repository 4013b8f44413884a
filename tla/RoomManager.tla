------------------------------ MODULE RoomManager ------------------------------
(***************************************************************************)
(* The RoomManager of src/room-manager.js with backpressure disabled (the  *)
(* way createServer builds it): room membership and its reverse index, the *)
(* admission limits and the circuit breaker, per-room sequence numbers and *)
(* the replay ring buffer, broadcast deduplication, and the ACK window.    *)
(*                                                                         *)
(* Every method is synchronous, so every method is one action; the         *)
(* interleaving is that of the callers: messages of several connections,   *)
(* close events, token refreshes and the sockets' own life.                *)
(***************************************************************************)
EXTENDS DedupCache, FiniteSets
LOCAL INSTANCE FiniteSetsExt

CONSTANTS
  Clients, Rooms, Sockets,   \* identifiers the callers pass in
  NoSocket, NoClient,        \* "absent" in a room map / no excluded publisher
  Updates,                   \* location updates, one per (clientId, timestamp)
  Plain,                     \* any message without a deduplication key
  Sizes,                     \* serialised sizes an entry may have
  Acks,                      \* sequence numbers a client may acknowledge
  Infinity,                  \* a limit that is not configured
  MaxRoomsPerClient, MaxMembersPerRoom, MaxRooms, MaxRoomSize,
  RingBufferSize, MaxBufferBytes,
  DedupWindow, MaxDedupEntries,
  AckWindowSize,
  BreakerEnabled,
  MaxSeq, MaxTime, MaxTotal  \* bounds of the model, not of the code

Limit == Nat \cup {Infinity}

ASSUME IdentifierAssumption ==
  /\ NoSocket \notin Sockets
  /\ NoClient \notin Clients
  /\ Plain \notin Updates
  /\ Infinity \notin Nat
  /\ IsFiniteSet(Clients)
  /\ IsFiniteSet(Rooms)

ASSUME LimitAssumption ==
  /\ MaxRoomsPerClient \in Limit
  /\ MaxMembersPerRoom \in Limit
  /\ MaxRooms \in Limit
  /\ MaxRoomSize \in Limit
  /\ AckWindowSize \in Limit
  /\ RingBufferSize \in Nat
  /\ MaxBufferBytes \in Nat
  /\ DedupWindow \in Nat
  /\ MaxDedupEntries \in Nat
  /\ Sizes \subseteq Nat
  /\ Acks \subseteq Nat
  /\ BreakerEnabled \in BOOLEAN
  /\ MaxSeq \in Nat /\ MaxTime \in Nat /\ MaxTotal \in Nat

VARIABLES
  rooms,         \* _rooms: room -> client -> socket (NoSocket: not a member)
  liveRooms,     \* the keys of _rooms
  clientRooms,   \* _clientRooms: client -> set of rooms
  liveClients,   \* the keys of _clientRooms
  totalMembers,  \* _totalMembers
  breaker,       \* _circuitBreakerState
  roomSeq,       \* _roomSeq
  roomBuffers,   \* _roomBuffers: room -> sequence of entries
  dedupCache,    \* _dedupCache
  ackState,      \* _ackState: client -> room -> record
  openSockets,   \* the sockets whose readyState is OPEN
  now,           \* Date.now()
  sent,          \* history: seqs broadcast to (client, room) since its ack
                 \* state was last created
  ahead          \* history: (client, room) pairs that acknowledged a number the
                 \* room had not assigned, since their ack state was created

membership == <<rooms, liveRooms, clientRooms, liveClients, totalMembers>>
log == <<roomSeq, roomBuffers, dedupCache>>
flow == <<ackState, sent, ahead>>
vars == <<membership, breaker, log, flow, openSockets, now>>

-------------------------------------------------------------------------------
(* Types *)

AckRecord == [highestAckedSeq : Nat, unackedCount : Nat, paused : BOOLEAN]
Entry == [seq : Nat, payload : Updates \cup {Plain}, bytes : Sizes, timestamp : Nat]
DedupEntry == [key : Rooms \X Updates, at : Nat]

\* What _getAckState creates; a deleted record reads as this one again.
FreshAck == [highestAckedSeq |-> 0, unackedCount |-> 0, paused |-> FALSE]

\* Every variable has the shape of the Map, Set or number it stands for.
TypeOK ==
  /\ rooms \in [Rooms -> [Clients -> Sockets \cup {NoSocket}]]
  /\ liveRooms \subseteq Rooms
  /\ clientRooms \in [Clients -> SUBSET Rooms]
  /\ liveClients \subseteq Clients
  /\ totalMembers \in Int
  /\ breaker \in {"CLOSED", "OPEN"}
  /\ roomSeq \in [Rooms -> Nat]
  /\ roomBuffers \in [Rooms -> Seq(Entry)]
  /\ dedupCache \in Seq(DedupEntry)
  /\ ackState \in [Clients -> [Rooms -> AckRecord]]
  /\ openSockets \subseteq Sockets
  /\ now \in Nat
  /\ sent \in [Clients -> [Rooms -> SUBSET Nat]]
  /\ ahead \subseteq Clients \X Rooms

Init ==
  /\ rooms = [r \in Rooms |-> [c \in Clients |-> NoSocket]]
  /\ liveRooms = {}
  /\ clientRooms = [c \in Clients |-> {}]
  /\ liveClients = {}
  /\ totalMembers = 0
  /\ breaker = "CLOSED"
  /\ roomSeq = [r \in Rooms |-> 0]
  /\ roomBuffers = [r \in Rooms |-> <<>>]
  /\ dedupCache = <<>>
  /\ ackState = [c \in Clients |-> [r \in Rooms |-> FreshAck]]
  /\ openSockets = Sockets
  /\ now = 0
  /\ sent = [c \in Clients |-> [r \in Rooms |-> {}]]
  /\ ahead = {}

-------------------------------------------------------------------------------
(* Membership *)

Members(r) == {c \in Clients : rooms[r][c] # NoSocket}
IsMember(c, r) == rooms[r][c] # NoSocket

\* Faulty variant: the limit is off by one.
ReachedLate(n, limit) == limit # Infinity /\ n > limit

\* A configured limit is reached; an unconfigured one never is.
Reached(n, limit) == limit # Infinity /\ n >= limit

\* The breaker after _checkCircuitBreaker: it opens at the memory threshold
\* ("high"), closes at the recovery threshold ("low") and holds in between.
CheckBreaker(heap) ==
  IF ~BreakerEnabled THEN breaker
  ELSE IF heap = "high" THEN "OPEN"
  ELSE IF heap = "low" THEN "CLOSED" ELSE breaker

BreakerRejects(heap) == BreakerEnabled /\ CheckBreaker(heap) = "OPEN"

\* The three limits join() checks before it touches the room.
WithinLimits(c, r) ==
  /\ r \in clientRooms[c] \/ ~Reached(Cardinality(clientRooms[c]), MaxRoomsPerClient)
  /\ IsMember(c, r) \/ ~Reached(Cardinality(Members(r)), MaxMembersPerRoom)
  /\ r \in liveRooms \/ ~Reached(Cardinality(liveRooms), MaxRooms)

\* The room is full by maxRoomSize, checked after _ensureRoom created it.
RoomFull(c, r) == ~IsMember(c, r) /\ Reached(Cardinality(Members(r)), MaxRoomSize)

\* join() that stores the membership; a re-join only replaces the socket.
JoinAccepted(c, r, w) ==
  /\ totalMembers < MaxTotal
  /\ rooms' = [rooms EXCEPT ![r][c] = w]
  /\ liveRooms' = liveRooms \cup {r}
  /\ clientRooms' = [clientRooms EXCEPT ![c] = @ \cup {r}]
  /\ liveClients' = liveClients \cup {c}
  /\ totalMembers' = IF IsMember(c, r) THEN totalMembers ELSE totalMembers + 1

\* join(): the breaker, then the limits, then the room's size; only an
\* accepted join stores anything but the breaker's state and the room's key.
Join(c, r, w, heap) ==
  /\ breaker' = CheckBreaker(heap)
  /\ \/ /\ BreakerRejects(heap) \/ ~WithinLimits(c, r)
        /\ UNCHANGED membership
     \/ /\ ~BreakerRejects(heap)
        /\ WithinLimits(c, r)
        /\ RoomFull(c, r)
        /\ liveRooms' = liveRooms \cup {r}
        /\ UNCHANGED <<rooms, clientRooms, liveClients, totalMembers>>
     \/ /\ ~BreakerRejects(heap)
        /\ WithinLimits(c, r)
        /\ ~RoomFull(c, r)
        /\ JoinAccepted(c, r, w)
  /\ UNCHANGED <<log, flow, openSockets, now>>

\* Faulty variant: empty rooms stay in the map.
CleanupNothing(rs, after) == liveRooms

\* _cleanupRoom: a room that lost its last member is deleted.
CleanupRooms(rs, after) ==
  liveRooms \ {r \in rs : \A c \in Clients : after[r][c] = NoSocket}

\* leave(): both directions of the index, then the room's ack record.
Leave(c, r) ==
  /\ rooms' = [rooms EXCEPT ![r][c] = NoSocket]
  /\ liveRooms' = IF IsMember(c, r) THEN CleanupRooms({r}, rooms') ELSE liveRooms
  /\ totalMembers' = IF IsMember(c, r) THEN totalMembers - 1 ELSE totalMembers
  /\ clientRooms' = [clientRooms EXCEPT ![c] = @ \ {r}]
  /\ liveClients' = IF clientRooms'[c] = {} THEN liveClients \ {c} ELSE liveClients
  /\ ackState' = IF AckWindowSize = Infinity THEN ackState
                 ELSE [ackState EXCEPT ![c][r] = FreshAck]
  /\ sent' = [sent EXCEPT ![c][r] = {}]
  /\ ahead' = IF AckWindowSize = Infinity THEN ahead ELSE ahead \ {<<c, r>>}
  /\ UNCHANGED <<breaker, log, openSockets, now>>

\* disconnect(): leaves every room of the reverse index, drops all ack state.
Disconnect(c) ==
  /\ rooms' = [r \in Rooms |-> IF r \in clientRooms[c]
                               THEN [rooms[r] EXCEPT ![c] = NoSocket] ELSE rooms[r]]
  /\ liveRooms' = CleanupRooms(clientRooms[c], rooms')
  /\ totalMembers' = totalMembers - Cardinality(clientRooms[c])
  /\ clientRooms' = [clientRooms EXCEPT ![c] = {}]
  /\ liveClients' = liveClients \ {c}
  /\ ackState' = [ackState EXCEPT ![c] = [r \in Rooms |-> FreshAck]]
  /\ sent' = [sent EXCEPT ![c] = [r \in Rooms |-> {}]]
  /\ ahead' = ahead \ ({c} \X Rooms)
  /\ UNCHANGED <<breaker, log, openSockets, now>>

\* updateClientId(): a token refresh moves the memberships (and the sockets)
\* of one id to another.  A room that holds both ids ends with one of them.
UpdateClientId(old, new) ==
  /\ old # new
  /\ old \in liveClients
  /\ rooms' = [r \in Rooms |->
       IF r \in clientRooms[old] /\ IsMember(old, r)
       THEN [rooms[r] EXCEPT ![old] = NoSocket, ![new] = rooms[r][old]]
       ELSE rooms[r]]
  /\ clientRooms' = [clientRooms EXCEPT ![new] = @ \cup clientRooms[old], ![old] = {}]
  /\ liveClients' = (liveClients \ {old}) \cup {new}
  /\ UNCHANGED <<liveRooms, totalMembers, breaker, log, flow, openSockets, now>>

-------------------------------------------------------------------------------
(* Broadcast, replay and the ACK window *)

\* The bytes of a buffer without its first k entries.
BytesAfter(buffer, k) ==
  MapThenSumSet(LAMBDA i : buffer[i].bytes, (k + 1) .. Len(buffer))

\* The eviction loop stops after k shifts.
StopsAfter(buffer, k) ==
  \/ k = Len(buffer)
  \/ Len(buffer) - k <= RingBufferSize /\ BytesAfter(buffer, k) <= MaxBufferBytes

\* The number of entries the loop shifts: the least k at which it stops.
Evictions(buffer) ==
  CHOOSE k \in 0 .. Len(buffer) :
    StopsAfter(buffer, k) /\ \A j \in 0 .. (k - 1) : ~StopsAfter(buffer, j)

Evict(buffer) == SubSeq(buffer, Evictions(buffer) + 1, Len(buffer))

\* A member whose socket can take the frame; the publisher is left out.
Eligible(c, r, exclude) ==
  /\ IsMember(c, r)
  /\ c # exclude
  /\ rooms[r][c] \in openSockets

\* The window of the client is full (or it is already paused).
WindowFull(c, r) ==
  /\ AckWindowSize # Infinity
  /\ ackState[c][r].paused \/ ackState[c][r].unackedCount >= AckWindowSize

\* The ack record after one broadcast reached an eligible member.
AfterBroadcast(c, r) ==
  IF AckWindowSize = Infinity THEN ackState[c][r]
  ELSE IF WindowFull(c, r) THEN [ackState[c][r] EXCEPT !.paused = TRUE]
  ELSE [ackState[c][r] EXCEPT !.unackedCount = @ + 1]

\* One room's component of a client -> room table, for the clients P holds of.
PutWhere(table, r, P(_), val(_)) ==
  [c \in Clients |-> [q \in Rooms |->
     IF q = r /\ P(c) THEN val(c) ELSE table[c][q]]]

\* broadcast(): a duplicate returns at once (no step); otherwise the message
\* is sequenced, buffered, and written to every eligible member whose window
\* has space.
Broadcast(r, m, bytes, exclude) ==
  LET seq == roomSeq[r] + 1
      entry == [seq |-> seq, payload |-> m, bytes |-> bytes, timestamp |-> now]
  IN
  /\ roomSeq[r] < MaxSeq
  /\ m \in Updates => ~IsDuplicate(dedupCache, <<r, m>>, now, DedupWindow)
  /\ dedupCache' = IF m \in Updates
                   THEN Record(dedupCache, <<r, m>>, now, MaxDedupEntries)
                   ELSE dedupCache
  /\ roomSeq' = [roomSeq EXCEPT ![r] = seq]
  /\ roomBuffers' = [roomBuffers EXCEPT ![r] = Evict(Append(@, entry))]
  /\ ackState' = PutWhere(ackState, r,
                   LAMBDA c : Eligible(c, r, exclude), LAMBDA c : AfterBroadcast(c, r))
  /\ sent' = PutWhere(sent, r,
                   LAMBDA c : Eligible(c, r, exclude) /\ ~WindowFull(c, r),
                   LAMBDA c : sent[c][r] \cup {seq})
  /\ UNCHANGED <<membership, breaker, openSockets, now, ahead>>

Monus(a, b) == IF a >= b THEN a - b ELSE 0

\* Faulty variant: an ack frees one slot, however many messages it covers.
AckedByOne(a, seq) ==
  LET b == IF seq > a.highestAckedSeq
           THEN [a EXCEPT !.highestAckedSeq = seq, !.unackedCount = Monus(@, 1)]
           ELSE a
  IN  IF b.paused /\ ~Reached(b.unackedCount, AckWindowSize)
      THEN [b EXCEPT !.paused = FALSE] ELSE b

\* Faulty variant: an ack frees the window but never resumes the client.
AckedByStaysPaused(a, seq) ==
  IF seq > a.highestAckedSeq
  THEN [a EXCEPT !.highestAckedSeq = seq,
                 !.unackedCount = Monus(@, seq - a.highestAckedSeq)]
  ELSE a

\* ack(): cumulative; it frees the distance between the two high-water marks
\* and resumes a client whose window has space again.
AckedBy(a, seq) ==
  LET b == IF seq > a.highestAckedSeq
           THEN [a EXCEPT !.highestAckedSeq = seq,
                          !.unackedCount = Monus(@, seq - a.highestAckedSeq)]
           ELSE a
  IN  IF b.paused /\ ~Reached(b.unackedCount, AckWindowSize)
      THEN [b EXCEPT !.paused = FALSE] ELSE b

\* The caller is any connected client, a member or not, and seq any number: it
\* is not compared with the room's.
Ack(c, r, seq) ==
  /\ ackState' = [ackState EXCEPT ![c][r] = AckedBy(@, seq)]
  /\ ahead' = IF seq > roomSeq[r] THEN ahead \cup {<<c, r>>} ELSE ahead
  /\ UNCHANGED <<membership, breaker, log, openSockets, now, sent>>

\* Faulty variant: the replay tolerates one evicted message.
HandleReconnectOffByOne(r, lastSeq, acked) ==
  LET buffer == roomBuffers[r]
      current == roomSeq[r]
      replayFrom == IF acked >= 0 THEN acked ELSE lastSeq
  IN  IF replayFrom = current
      THEN [type |-> "replay_complete", messages |-> {}, fromSeq |-> current]
      ELSE IF Len(buffer) > 0 /\ replayFrom >= buffer[1].seq - 2 /\ replayFrom < current
      THEN [type |-> "replay", fromSeq |-> replayFrom,
            messages |-> {buffer[i] : i \in {i \in 1 .. Len(buffer) : buffer[i].seq > replayFrom}}]
      ELSE [type |-> "replay_gap", messages |-> {}, fromSeq |-> current]

\* handleReconnect(): a query.  replayFrom is the acknowledged mark when the
\* client reports one (acked >= 0) and the last received one otherwise.  The
\* replayed entries keep the order of the buffer.
HandleReconnect(r, lastSeq, acked) ==
  LET buffer == roomBuffers[r]
      current == roomSeq[r]
      replayFrom == IF acked >= 0 THEN acked ELSE lastSeq
  IN  IF replayFrom = current
      THEN [type |-> "replay_complete", messages |-> {}, fromSeq |-> current]
      ELSE IF /\ Len(buffer) > 0
              /\ replayFrom >= buffer[1].seq - 1
              /\ replayFrom < current
      THEN [type |-> "replay", fromSeq |-> replayFrom,
            messages |-> {buffer[i] : i \in {i \in 1 .. Len(buffer) : buffer[i].seq > replayFrom}}]
      ELSE [type |-> "replay_gap", messages |-> {},
            fromSeq |-> IF Len(buffer) > 0 THEN buffer[1].seq ELSE current]

-------------------------------------------------------------------------------
(* The environment: sockets die and time passes *)

SocketCloses(w) ==
  /\ w \in openSockets
  /\ openSockets' = openSockets \ {w}
  /\ UNCHANGED <<membership, breaker, log, flow, now>>

Tick ==
  /\ now < MaxTime
  /\ now' = now + 1
  /\ UNCHANGED <<membership, breaker, log, flow, openSockets>>

Next ==
  \/ \E c \in Clients, r \in Rooms, w \in Sockets, heap \in {"low", "mid", "high"} :
       Join(c, r, w, heap)
  \/ \E c \in Clients, r \in Rooms : Leave(c, r)
  \/ \E c \in Clients : Disconnect(c)
  \/ \E old, new \in Clients : UpdateClientId(old, new)
  \/ \E r \in Rooms, m \in Updates \cup {Plain}, bytes \in Sizes,
        exclude \in Clients \cup {NoClient} : Broadcast(r, m, bytes, exclude)
  \/ \E c \in Clients, r \in Rooms, seq \in Acks : Ack(c, r, seq)
  \/ \E w \in Sockets : SocketCloses(w)
  \/ Tick

Spec == Init /\ [][Next]_vars

-------------------------------------------------------------------------------
(* Properties *)

\* Membership and the reverse index agree: a client is in a room's map exactly
\* when the room is in the client's set.  broadcast() reads one, disconnect()
\* the other; join, leave, updateClientId and disconnect must keep both.
IndexConsistent ==
  \A c \in Clients, r \in Rooms : IsMember(c, r) <=> r \in clientRooms[c]

\* roomCount counts the rooms with a member and clientCount the clients with a
\* room: no handler leaves an empty Map or Set behind (provided a room may
\* hold one member at all).
CountsAreActive ==
  /\ MaxRoomSize # 0 => liveRooms = {r \in Rooms : Members(r) # {}}
  /\ liveClients = {c \in Clients : clientRooms[c] # {}}

\* The indexes and the key sets together: what broadcast(), disconnect() and the
\* metrics read of the memberships is one and the same relation.
MembershipConsistent == IndexConsistent /\ CountsAreActive

Memberships == {x \in Clients \X Rooms : IsMember(x[1], x[2])}

\* No sequence of joins, leaves, refreshes and disconnects puts more members in
\* a room, or more rooms in the manager, than the limits of join() allow, and
\* stats.totalMembers never undercounts the memberships.
LimitsHold ==
  /\ \A r \in Rooms, limit \in {MaxMembersPerRoom, MaxRoomSize} :
       limit # Infinity => Cardinality(Members(r)) <= limit
  /\ MaxRooms # Infinity => Cardinality(liveRooms) <= MaxRooms
  /\ totalMembers >= Cardinality(Memberships)

\* handleReconnect() answers truthfully for every mark a client can report: a
\* replay is exactly the sequence numbers after the mark, in order and without
\* a hole; "complete" means nothing is missing; a gap is reported only when the
\* buffer really lost something the client needs (or the mark is from a future
\* the room never reached).
ReplayExact ==
  \A r \in Rooms :
    LET buffer == roomBuffers[r]
        held == {buffer[i].seq : i \in 1 .. Len(buffer)}
    IN
    /\ \A i, j \in 1 .. Len(buffer) : i < j => buffer[i].seq < buffer[j].seq
    /\ \A from \in 0 .. (MaxSeq + 1) :
         LET reply == HandleReconnect(r, 0, from)
         IN  /\ reply.type = "replay" =>
                  {e.seq : e \in reply.messages} = (from + 1) .. roomSeq[r]
             /\ reply.type = "replay_complete" => from = roomSeq[r]
             /\ reply.type = "replay_gap" =>
                  from > roomSeq[r] \/ ~((from + 1) .. roomSeq[r] \subseteq held)

\* The number up to which the client's acknowledgements cover what it was sent.
\* A mark the room had not reached says nothing about the messages since.
CoveredUpTo(c, r) == IF <<c, r>> \in ahead THEN 0 ELSE ackState[c][r].highestAckedSeq

\* The messages written to the client and not known to be acknowledged.
Outstanding(c, r) == {s \in sent[c][r] : s > CoveredUpTo(c, r)}

\* unackedCount never exceeds what is really outstanding, whatever the order of
\* broadcasts, acknowledgements, leaves and refreshes: a client that has
\* acknowledged all it was sent, and never a number its room had not assigned,
\* has an empty window; a client that did the latter is never charged more than
\* it was sent.
UnackedIsOutstanding ==
  \A c \in Clients, r \in Rooms :
    ackState[c][r].unackedCount <= Cardinality(Outstanding(c, r))

\* A paused client has a full window of outstanding messages, and unless it ran
\* ahead of its room, acknowledging the room's newest message resumes it:
\* broadcast() never silences such a client for good.  (A window of 0 never has
\* space.  A client that ran ahead resumes only beyond the mark it set itself.)
PausedCanResume ==
  \A c \in Clients, r \in Rooms :
    ackState[c][r].paused =>
      /\ AckWindowSize # Infinity
      /\ Cardinality(Outstanding(c, r)) >= AckWindowSize
      /\ AckWindowSize # 0 /\ <<c, r>> \notin ahead =>
           ~AckedBy(ackState[c][r], roomSeq[r]).paused

\* Two buffered broadcasts of one location update of one room.
SamePayload(r, i, j) ==
  /\ i < j
  /\ roomBuffers[r][i].payload \in Updates
  /\ roomBuffers[r][i].payload = roomBuffers[r][j].payload

\* The keys of the location updates that the buffers hold.
BufferedKeys ==
  {key \in Rooms \X Updates :
     \E i \in 1 .. Len(roomBuffers[key[1]]) : roomBuffers[key[1]][i].payload = key[2]}

\* Until more keys than the cache can hold have been recorded, every duplicate
\* is dropped: no update is sequenced twice in one room within the
\* deduplication window, whatever is interleaved with it.  (Stated while the
\* buffers still hold everything that was broadcast.)
NoDuplicateInWindow ==
  /\ \A r \in Rooms : Len(roomBuffers[r]) = roomSeq[r]
  /\ Cardinality(BufferedKeys) <= MaxDedupEntries
  => \A r \in Rooms : \A i, j \in 1 .. Len(roomBuffers[r]) :
       SamePayload(r, i, j) =>
         roomBuffers[r][j].timestamp - roomBuffers[r][i].timestamp > DedupWindow
===============================================================================

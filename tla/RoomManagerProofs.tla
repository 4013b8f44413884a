--------------------------- MODULE RoomManagerProofs ---------------------------
(***************************************************************************)
(* Proofs about RoomManager, for every value of its constants.             *)
(***************************************************************************)
EXTENDS RoomManager, FiniteSetTheorems, SequenceTheorems, WellFoundedInduction, TLAPS

-------------------------------------------------------------------------------
(* Lemmas about the operators *)

\* A nonempty set of natural numbers has a least element.
LEMMA LeastNat ==
  ASSUME NEW T, T \subseteq Nat, T # {}
  PROVE  \E x \in T : \A y \in T : x <= y
<1>1. \E x \in T : \A y \in T : ~ (<<y, x>> \in OpToRel(<, Nat))
  BY NatLessThanWellFounded, WFMin
<1>2. PICK x \in T : \A y \in T : ~ (<<y, x>> \in OpToRel(<, Nat))
  BY <1>1
<1>3. ASSUME NEW y \in T PROVE x <= y
  <2>1. x \in Nat /\ y \in Nat
    OBVIOUS
  <2>2. y < x => <<y, x>> \in OpToRel(<, Nat)
    BY <2>1 DEF OpToRel
  <2>3. ~(<<y, x>> \in OpToRel(<, Nat))
    BY <1>2
  <2>4. ~(y < x)
    BY <2>2, <2>3
  <2>5. QED
    BY <2>1, <2>4
<1>4. QED
  BY <1>2, <1>3

\* The eviction loop of broadcast() shifts between none and all the entries.
LEMMA EvictionsType ==
  ASSUME NEW S, NEW buffer \in Seq(S)
  PROVE  Evictions(buffer) \in 0 .. Len(buffer)
<1> DEFINE T == {k \in 0 .. Len(buffer) : StopsAfter(buffer, k)}
<1>1. Len(buffer) \in Nat
  BY LenProperties
<1>2. T \subseteq Nat /\ Len(buffer) \in T
  BY <1>1 DEF StopsAfter
<1>3. PICK k \in T : \A y \in T : k <= y
  BY <1>2, LeastNat
<1>4. \A j \in 0 .. (k - 1) : ~StopsAfter(buffer, j)
  <2> SUFFICES ASSUME NEW j \in 0 .. (k - 1), StopsAfter(buffer, j) PROVE FALSE
    OBVIOUS
  <2>1. j \in T
    BY <1>1, <1>3
  <2>2. QED
    BY <1>3, <2>1
<1>5. QED
  BY <1>3, <1>4 DEF Evictions

\* What is left of a buffer after eviction is a suffix of it.
LEMMA EvictIsSuffix ==
  ASSUME NEW S, NEW buffer \in Seq(S)
  PROVE  /\ Evict(buffer) \in Seq(S)
         /\ Len(Evict(buffer)) <= Len(buffer)
         /\ \A i \in 1 .. Len(Evict(buffer)) :
              Evict(buffer)[i] = buffer[Len(buffer) - Len(Evict(buffer)) + i]
<1> DEFINE k == Evictions(buffer)
<1>1. k \in 0 .. Len(buffer) /\ Len(buffer) \in Nat
  BY EvictionsType, LenProperties
<1> HIDE DEF k
<1>2. \A i \in (k + 1) .. Len(buffer) : buffer[i] \in S
  BY <1>1, ElementOfSeq
<1>3. /\ SubSeq(buffer, k + 1, Len(buffer)) \in Seq(S)
      /\ Len(SubSeq(buffer, k + 1, Len(buffer)))
           = IF k + 1 <= Len(buffer) THEN Len(buffer) - (k + 1) + 1 ELSE 0
      /\ \A i \in 1 .. Len(buffer) - (k + 1) + 1 :
           SubSeq(buffer, k + 1, Len(buffer))[i] = buffer[(k + 1) + i - 1]
  BY <1>1, <1>2, SubSeqProperties
<1>4. Evict(buffer) = SubSeq(buffer, k + 1, Len(buffer))
  BY DEF Evict, k
<1>5. Len(Evict(buffer)) = Len(buffer) - k
  BY <1>1, <1>3, <1>4
<1>6. ASSUME NEW i \in 1 .. Len(Evict(buffer))
      PROVE  Evict(buffer)[i] = buffer[Len(buffer) - Len(Evict(buffer)) + i]
  <2>1. i \in 1 .. Len(buffer) - (k + 1) + 1 /\ i \in Nat
    BY <1>1, <1>5
  <2>2. Evict(buffer)[i] = buffer[(k + 1) + i - 1]
    BY <1>3, <1>4, <2>1
  <2>3. (k + 1) + i - 1 = Len(buffer) - Len(Evict(buffer)) + i
    BY <1>1, <1>5, <2>1
  <2>4. QED
    BY <2>2, <2>3
<1>7. Len(Evict(buffer)) <= Len(buffer)
  BY <1>1, <1>5
<1>8. QED
  BY <1>3, <1>4, <1>6, <1>7

\* Recording a key keeps the deduplication cache a cache.
LEMMA RecordType ==
  ASSUME NEW cache \in Seq(DedupEntry), NEW key \in Rooms \X Updates,
         NEW t \in Nat, NEW cap \in Nat
  PROVE  Record(cache, key, t, cap) \in Seq(DedupEntry)
<1>1. SetKey(cache, key, t) \in Seq(DedupEntry)
  <2>1. CASE Places(cache, key) # {}
    <3>1. \A i \in 1 .. Len(cache) :
            (IF cache[i].key = key THEN [cache[i] EXCEPT !.at = t] ELSE cache[i])
              \in DedupEntry
      <4> SUFFICES ASSUME NEW i \in 1 .. Len(cache)
                   PROVE  (IF cache[i].key = key THEN [cache[i] EXCEPT !.at = t]
                           ELSE cache[i]) \in DedupEntry
        OBVIOUS
      <4>1. cache[i] \in DedupEntry
        BY ElementOfSeq
      <4>2. [cache[i] EXCEPT !.at = t] \in DedupEntry
        BY <4>1 DEF DedupEntry
      <4>3. QED
        BY <4>1, <4>2
    <3>2. QED
      BY <2>1, <3>1, LenProperties DEF SetKey
  <2>2. CASE Places(cache, key) = {}
    BY <2>2 DEF SetKey, DedupEntry
  <2>3. QED
    BY <2>1, <2>2
<1>2. ASSUME NEW s \in Seq(DedupEntry) PROVE EvictFirst(s, cap) \in Seq(DedupEntry)
  BY DEF EvictFirst
<1>3. QED
  BY <1>1, <1>2 DEF Record

-------------------------------------------------------------------------------
(* Type correctness *)

LEMMA TypeInit == Init => TypeOK
BY EmptySeq DEF Init, TypeOK, AckRecord, FreshAck

\* AckedBy and AfterBroadcast return ack records.
LEMMA AckedByType ==
  ASSUME NEW a \in AckRecord, NEW seq \in Nat
  PROVE  AckedBy(a, seq) \in AckRecord
<1> DEFINE freed == [a EXCEPT !.highestAckedSeq = seq,
                              !.unackedCount = Monus(@, seq - a.highestAckedSeq)]
           b == IF seq > a.highestAckedSeq THEN freed ELSE a
<1>1. a.highestAckedSeq \in Nat /\ a.unackedCount \in Nat
  BY DEF AckRecord
<1>2. seq > a.highestAckedSeq => Monus(a.unackedCount, seq - a.highestAckedSeq) \in Nat
  BY <1>1 DEF Monus
<1>3. b \in AckRecord
  BY <1>2 DEF AckRecord
<1> HIDE DEF b
<1>4. [b EXCEPT !.paused = FALSE] \in AckRecord
  BY <1>3 DEF AckRecord
<1>5. AckedBy(a, seq) \in {b, [b EXCEPT !.paused = FALSE]}
  BY DEF AckedBy, b
<1>6. QED
  BY <1>3, <1>4, <1>5

LEMMA AfterBroadcastType ==
  ASSUME TypeOK, NEW c \in Clients, NEW r \in Rooms
  PROVE  AfterBroadcast(c, r) \in AckRecord
<1>1. ackState[c][r] \in AckRecord
  BY DEF TypeOK
<1> DEFINE a == ackState[c][r]
<1>2. [a EXCEPT !.paused = TRUE] \in AckRecord
  BY <1>1 DEF AckRecord
<1>3. [a EXCEPT !.unackedCount = @ + 1] \in AckRecord
  BY <1>1 DEF AckRecord
<1>4. QED
  BY <1>1, <1>2, <1>3 DEF AfterBroadcast

LEMMA TypeNext == TypeOK /\ [Next]_vars => TypeOK'
<1> SUFFICES ASSUME TypeOK, [Next]_vars PROVE TypeOK'
  OBVIOUS
<1> USE DEF membership, log, flow
<1>1. ASSUME NEW c \in Clients, NEW r \in Rooms, NEW w \in Sockets,
             NEW heap \in {"low", "mid", "high"}, Join(c, r, w, heap)
      PROVE  TypeOK'
  <2>1. breaker' \in {"CLOSED", "OPEN"}
    BY <1>1 DEF Join, CheckBreaker, TypeOK
  <2>2. CASE UNCHANGED membership
    BY <1>1, <2>1, <2>2 DEF Join, TypeOK
  <2>3. CASE /\ liveRooms' = liveRooms \cup {r}
             /\ UNCHANGED <<rooms, clientRooms, liveClients, totalMembers>>
    BY <1>1, <2>1, <2>3 DEF Join, TypeOK
  <2>4. CASE JoinAccepted(c, r, w)
    <3>1. rooms' \in [Rooms -> [Clients -> Sockets \cup {NoSocket}]]
      BY <2>4 DEF JoinAccepted, TypeOK
    <3>2. /\ clientRooms' \in [Clients -> SUBSET Rooms]
          /\ liveRooms' \subseteq Rooms
          /\ liveClients' \subseteq Clients
      BY <2>4 DEF JoinAccepted, TypeOK
    <3>3. totalMembers' \in Int
      BY <2>4 DEF JoinAccepted, TypeOK
    <3>4. QED
      BY <1>1, <2>1, <3>1, <3>2, <3>3 DEF Join, TypeOK
  <2>5. QED
    BY <1>1, <2>2, <2>3, <2>4 DEF Join
<1>2. ASSUME NEW c \in Clients, NEW r \in Rooms, Leave(c, r)
      PROVE  TypeOK'
  <2>1. FreshAck \in AckRecord
    BY DEF FreshAck, AckRecord
  <2>2. rooms' \in [Rooms -> [Clients -> Sockets \cup {NoSocket}]]
    BY <1>2 DEF Leave, TypeOK
  <2>3. /\ clientRooms' \in [Clients -> SUBSET Rooms]
        /\ liveRooms' \subseteq Rooms
        /\ liveClients' \subseteq Clients
        /\ totalMembers' \in Int
    BY <1>2 DEF Leave, TypeOK, CleanupRooms
  <2>4. /\ ackState' \in [Clients -> [Rooms -> AckRecord]]
        /\ sent' \in [Clients -> [Rooms -> SUBSET Nat]]
    BY <1>2, <2>1 DEF Leave, TypeOK
  <2>5. QED
    BY <1>2, <2>2, <2>3, <2>4 DEF Leave, TypeOK
<1>3. ASSUME NEW c \in Clients, Disconnect(c)
      PROVE  TypeOK'
  <2>1. FreshAck \in AckRecord
    BY DEF FreshAck, AckRecord
  <2>2. Cardinality(clientRooms[c]) \in Nat
    <3>1. clientRooms[c] \in SUBSET Rooms
      BY DEF TypeOK
    <3>2. QED
      BY <3>1, FS_Subset, FS_CardinalityType, IdentifierAssumption
  <2>3. rooms' \in [Rooms -> [Clients -> Sockets \cup {NoSocket}]]
    BY <1>3 DEF Disconnect, TypeOK
  <2>4. /\ clientRooms' \in [Clients -> SUBSET Rooms]
        /\ liveRooms' \subseteq Rooms
        /\ liveClients' \subseteq Clients
        /\ totalMembers' \in Int
    BY <1>3, <2>2 DEF Disconnect, TypeOK, CleanupRooms
  <2>5. /\ ackState' \in [Clients -> [Rooms -> AckRecord]]
        /\ sent' \in [Clients -> [Rooms -> SUBSET Nat]]
    BY <1>3, <2>1 DEF Disconnect, TypeOK
  <2>6. QED
    BY <1>3, <2>3, <2>4, <2>5 DEF Disconnect, TypeOK
<1>4. ASSUME NEW old \in Clients, NEW new \in Clients, UpdateClientId(old, new)
      PROVE  TypeOK'
  <2>1. rooms' \in [Rooms -> [Clients -> Sockets \cup {NoSocket}]]
    BY <1>4 DEF UpdateClientId, TypeOK, IsMember
  <2>2. clientRooms' \in [Clients -> SUBSET Rooms] /\ liveClients' \subseteq Clients
    BY <1>4 DEF UpdateClientId, TypeOK
  <2>3. QED
    BY <1>4, <2>1, <2>2 DEF UpdateClientId, TypeOK
<1>5. ASSUME NEW r \in Rooms, NEW m \in Updates \cup {Plain}, NEW bytes \in Sizes,
             NEW exclude \in Clients \cup {NoClient}, Broadcast(r, m, bytes, exclude)
      PROVE  TypeOK'
  <2> DEFINE entry == [seq |-> roomSeq[r] + 1, payload |-> m, bytes |-> bytes,
                       timestamp |-> now]
  <2>1. roomSeq[r] + 1 \in Nat /\ entry \in Entry
    BY DEF TypeOK, Entry
  <2>2. roomSeq' \in [Rooms -> Nat]
    BY <1>5, <2>1 DEF Broadcast, TypeOK
  <2>3. dedupCache' \in Seq(DedupEntry)
    BY <1>5, RecordType, LimitAssumption DEF Broadcast, TypeOK
  <2>4. roomBuffers' \in [Rooms -> Seq(Entry)]
    <3>1. Append(roomBuffers[r], entry) \in Seq(Entry)
      BY <2>1 DEF TypeOK
    <3>2. Evict(Append(roomBuffers[r], entry)) \in Seq(Entry)
      BY <3>1, EvictIsSuffix
    <3>3. QED
      BY <1>5, <3>2 DEF Broadcast, TypeOK
  <2>5. ackState' \in [Clients -> [Rooms -> AckRecord]]
    BY <1>5, AfterBroadcastType DEF Broadcast, PutWhere, TypeOK
  <2>6. sent' \in [Clients -> [Rooms -> SUBSET Nat]]
    BY <1>5, <2>1 DEF Broadcast, PutWhere, TypeOK
  <2>7. QED
    BY <1>5, <2>2, <2>3, <2>4, <2>5, <2>6 DEF Broadcast, TypeOK
<1>6. ASSUME NEW c \in Clients, NEW r \in Rooms, NEW seq \in Acks,
             Ack(c, r, seq)
      PROVE  TypeOK'
  <2>1. seq \in Nat /\ ackState[c][r] \in AckRecord
    BY LimitAssumption DEF TypeOK
  <2>2. AckedBy(ackState[c][r], seq) \in AckRecord
    BY <2>1, AckedByType
  <2>3. ackState' \in [Clients -> [Rooms -> AckRecord]]
    BY <1>6, <2>2 DEF Ack, TypeOK
  <2>4. QED
    BY <1>6, <2>3 DEF Ack, TypeOK
<1>7. ASSUME NEW w \in Sockets, SocketCloses(w)
      PROVE  TypeOK'
  BY <1>7 DEF SocketCloses, TypeOK
<1>8. CASE Tick
  BY <1>8 DEF Tick, TypeOK
<1>9. CASE UNCHANGED vars
  BY <1>9 DEF vars, TypeOK
<1>10. QED
  BY <1>1, <1>2, <1>3, <1>4, <1>5, <1>6, <1>7, <1>8, <1>9 DEF Next

\* Every reachable state has the shape of the manager's Maps, Sets and counters,
\* whatever the limits, the window and the interleaving of the callers.
THEOREM TypeCorrect == Spec => []TypeOK
<1>1. Init => TypeOK
  BY TypeInit
<1>2. TypeOK /\ [Next]_vars => TypeOK'
  BY TypeNext
<1>3. QED
  BY <1>1, <1>2, PTL DEF Spec

-------------------------------------------------------------------------------
(* The reverse index *)

LEMMA IndexNext == TypeOK /\ IndexConsistent /\ [Next]_vars => IndexConsistent'
<1> SUFFICES ASSUME TypeOK, IndexConsistent, [Next]_vars PROVE IndexConsistent'
  OBVIOUS
<1> USE DEF membership, log, flow, IsMember
<1>1. ASSUME NEW c \in Clients, NEW r \in Rooms, NEW w \in Sockets,
             NEW heap \in {"low", "mid", "high"}, Join(c, r, w, heap)
      PROVE  IndexConsistent'
  <2>1. CASE UNCHANGED <<rooms, clientRooms>>
    BY <2>1 DEF IndexConsistent
  <2>2. CASE JoinAccepted(c, r, w)
    BY <2>2, IdentifierAssumption DEF JoinAccepted, IndexConsistent, TypeOK
  <2>3. QED
    BY <1>1, <2>1, <2>2 DEF Join
<1>2. ASSUME NEW c \in Clients, NEW r \in Rooms, Leave(c, r)
      PROVE  IndexConsistent'
  BY <1>2 DEF Leave, IndexConsistent, TypeOK
<1>3. ASSUME NEW c \in Clients, Disconnect(c)
      PROVE  IndexConsistent'
  BY <1>3 DEF Disconnect, IndexConsistent, TypeOK
<1>4. ASSUME NEW old \in Clients, NEW new \in Clients, UpdateClientId(old, new)
      PROVE  IndexConsistent'
  BY <1>4 DEF UpdateClientId, IndexConsistent, TypeOK
<1>5. CASE UNCHANGED <<rooms, clientRooms>>
  BY <1>5 DEF IndexConsistent
<1>6. QED
  BY <1>1, <1>2, <1>3, <1>4, <1>5
     DEF Next, Broadcast, Ack, SocketCloses, Tick, vars

\* join, leave, updateClientId and disconnect keep the room maps and the reverse
\* index in agreement in every reachable state.
THEOREM IndexAlwaysConsistent == Spec => []IndexConsistent
<1>1. Init => IndexConsistent
  BY DEF Init, IndexConsistent, IsMember
<1>2. QED
  BY <1>1, TypeCorrect, IndexNext, PTL DEF Spec

-------------------------------------------------------------------------------
(* The keys of the two Maps *)

\* A room by room reading of CountsAreActive, which the steps preserve.
KeysActive ==
  /\ MaxRoomSize # 0 =>
       \A r \in Rooms : r \in liveRooms <=> \E c \in Clients : IsMember(c, r)
  /\ \A c \in Clients : c \in liveClients <=> clientRooms[c] # {}

LEMMA KeysActiveIsCountsAreActive ==
  ASSUME TypeOK PROVE KeysActive <=> CountsAreActive
BY DEF KeysActive, CountsAreActive, TypeOK, Members, IsMember

LEMMA KeysNext ==
  TypeOK /\ IndexConsistent /\ KeysActive /\ [Next]_vars => KeysActive'
<1> SUFFICES ASSUME TypeOK, IndexConsistent, KeysActive, [Next]_vars
             PROVE  KeysActive'
  OBVIOUS
<1> USE DEF membership, log, flow, IsMember
<1>1. ASSUME NEW c \in Clients, NEW r \in Rooms, NEW w \in Sockets,
             NEW heap \in {"low", "mid", "high"}, Join(c, r, w, heap)
      PROVE  KeysActive'
  <2>1. CASE UNCHANGED membership
    BY <2>1 DEF KeysActive
  <2>2. CASE /\ RoomFull(c, r)
             /\ liveRooms' = liveRooms \cup {r}
             /\ UNCHANGED <<rooms, clientRooms, liveClients, totalMembers>>
    <3>1. MaxRoomSize # 0 => Members(r) # {}
      <4>1. Reached(Cardinality(Members(r)), MaxRoomSize)
        BY <2>2 DEF RoomFull
      <4>2. Cardinality({}) = 0
        BY FS_EmptySet
      <4>3. QED
        BY <4>1, <4>2, LimitAssumption DEF Reached, Limit
    <3>2. MaxRoomSize # 0 => \E d \in Clients : rooms[r][d] # NoSocket
      BY <3>1 DEF Members
    <3>3. QED
      BY <2>2, <3>2 DEF KeysActive
  <2>3. CASE JoinAccepted(c, r, w)
    <3>1. rooms'[r][c] # NoSocket
      BY <2>3, IdentifierAssumption DEF JoinAccepted, TypeOK
    <3>2. \A q \in Rooms : q # r => rooms'[q] = rooms[q]
      BY <2>3 DEF JoinAccepted, TypeOK
    <3>3. MaxRoomSize # 0 =>
            \A q \in Rooms : q \in liveRooms' <=> \E d \in Clients : rooms'[q][d] # NoSocket
      BY <2>3, <3>1, <3>2 DEF JoinAccepted, KeysActive
    <3>4. \A d \in Clients : d \in liveClients' <=> clientRooms'[d] # {}
      BY <2>3 DEF JoinAccepted, KeysActive, TypeOK
    <3>5. QED
      BY <3>3, <3>4 DEF KeysActive
  <2>4. QED
    BY <1>1, <2>1, <2>2, <2>3 DEF Join
<1>2. ASSUME NEW c \in Clients, NEW r \in Rooms, Leave(c, r)
      PROVE  KeysActive'
  <2>1. \A q \in Rooms : q # r => rooms'[q] = rooms[q]
    BY <1>2 DEF Leave, TypeOK
  <2>2. ~IsMember(c, r) => rooms' = rooms
    BY <1>2 DEF Leave, TypeOK
  <2>3. MaxRoomSize # 0 =>
          \A q \in Rooms : q \in liveRooms' <=> \E d \in Clients : rooms'[q][d] # NoSocket
    <3>1. CASE IsMember(c, r)
      BY <1>2, <2>1, <3>1 DEF Leave, KeysActive, CleanupRooms
    <3>2. CASE ~IsMember(c, r)
      BY <1>2, <2>2, <3>2 DEF Leave, KeysActive
    <3>3. QED
      BY <3>1, <3>2
  <2>4. \A d \in Clients : d \in liveClients' <=> clientRooms'[d] # {}
    BY <1>2 DEF Leave, KeysActive, TypeOK
  <2>5. QED
    BY <2>3, <2>4 DEF KeysActive
<1>3. ASSUME NEW c \in Clients, Disconnect(c)
      PROVE  KeysActive'
  <2>1. \A q \in Rooms : q \notin clientRooms[c] => rooms'[q] = rooms[q]
    BY <1>3 DEF Disconnect
  <2>2. \A q \in clientRooms[c] : \E d \in Clients : rooms[q][d] # NoSocket
    BY DEF IndexConsistent, TypeOK
  <2>3. MaxRoomSize # 0 =>
          \A q \in Rooms : q \in liveRooms' <=> \E d \in Clients : rooms'[q][d] # NoSocket
    BY <1>3, <2>1, <2>2 DEF Disconnect, KeysActive, CleanupRooms
  <2>4. \A d \in Clients : d \in liveClients' <=> clientRooms'[d] # {}
    BY <1>3 DEF Disconnect, KeysActive, TypeOK
  <2>5. QED
    BY <2>3, <2>4 DEF KeysActive
<1>4. ASSUME NEW old \in Clients, NEW new \in Clients, UpdateClientId(old, new)
      PROVE  KeysActive'
  <2>1. \A q \in Rooms : (\E d \in Clients : rooms'[q][d] # NoSocket)
                           <=> (\E d \in Clients : rooms[q][d] # NoSocket)
    <3> SUFFICES ASSUME NEW q \in Rooms
                 PROVE  (\E d \in Clients : rooms'[q][d] # NoSocket)
                           <=> (\E d \in Clients : rooms[q][d] # NoSocket)
      OBVIOUS
    <3>1. CASE q \in clientRooms[old] /\ rooms[q][old] # NoSocket
      <4>1. rooms'[q] = [rooms[q] EXCEPT ![old] = NoSocket, ![new] = rooms[q][old]]
        BY <1>4, <3>1 DEF UpdateClientId
      <4>2. rooms'[q][new] = rooms[q][old]
        BY <4>1 DEF TypeOK
      <4>3. QED
        BY <3>1, <4>2
    <3>2. CASE ~(q \in clientRooms[old] /\ rooms[q][old] # NoSocket)
      BY <1>4, <3>2 DEF UpdateClientId
    <3>3. QED
      BY <3>1, <3>2
  <2>2. \A d \in Clients : d \in liveClients' <=> clientRooms'[d] # {}
    BY <1>4 DEF UpdateClientId, KeysActive, TypeOK
  <2>3. QED
    BY <1>4, <2>1, <2>2 DEF UpdateClientId, KeysActive
<1>5. CASE UNCHANGED membership
  BY <1>5 DEF KeysActive
<1>6. QED
  BY <1>1, <1>2, <1>3, <1>4, <1>5
     DEF Next, Broadcast, Ack, SocketCloses, Tick, vars

\* roomCount and clientCount count active rooms and clients only: no sequence of
\* calls leaves an empty Map or Set behind.
THEOREM CountsAlwaysActive == Spec => []CountsAreActive
<1>1. Init => KeysActive
  BY DEF Init, KeysActive, IsMember
<1>2. TypeOK /\ KeysActive => CountsAreActive
  BY KeysActiveIsCountsAreActive
<1>3. QED
  BY <1>1, <1>2, TypeCorrect, IndexAlwaysConsistent, KeysNext, PTL DEF Spec

\* The room maps, the reverse index and both key sets always describe one relation: what
\* broadcast(), disconnect() and the metrics read cannot drift apart.
THEOREM MembershipAlwaysConsistent == Spec => []MembershipConsistent
<1>1. IndexConsistent /\ CountsAreActive => MembershipConsistent
  BY DEF MembershipConsistent
<1>2. QED
  BY <1>1, IndexAlwaysConsistent, CountsAlwaysActive, PTL

-------------------------------------------------------------------------------
(* The ring buffer *)

\* The buffer of a room holds the last Len(buffer) sequence numbers, in order.
BufferContiguous ==
  \A r \in Rooms :
    /\ Len(roomBuffers[r]) <= roomSeq[r]
    /\ \A i \in 1 .. Len(roomBuffers[r]) :
         roomBuffers[r][i].seq = roomSeq[r] - Len(roomBuffers[r]) + i

LEMMA BufferNext == TypeOK /\ BufferContiguous /\ [Next]_vars => BufferContiguous'
<1> SUFFICES ASSUME TypeOK, BufferContiguous, [Next]_vars PROVE BufferContiguous'
  OBVIOUS
<1> USE DEF membership, log, flow
<1>1. ASSUME NEW r \in Rooms, NEW m \in Updates \cup {Plain}, NEW bytes \in Sizes,
             NEW exclude \in Clients \cup {NoClient}, Broadcast(r, m, bytes, exclude)
      PROVE  BufferContiguous'
  <2> DEFINE entry == [seq |-> roomSeq[r] + 1, payload |-> m, bytes |-> bytes,
                       timestamp |-> now]
             old == roomBuffers[r]
             full == Append(old, entry)
             new == Evict(full)
  <2>1. /\ roomSeq[r] \in Nat /\ entry \in Entry /\ old \in Seq(Entry)
        /\ entry.seq = roomSeq[r] + 1
    <3>1. roomSeq[r] \in Nat /\ old \in Seq(Entry) /\ now \in Nat
      BY DEF TypeOK
    <3>2. entry \in Entry
      BY <3>1 DEF Entry
    <3>3. QED
      BY <3>1, <3>2
  <2>2. roomBuffers' = [roomBuffers EXCEPT ![r] = new] /\ roomSeq'[r] = roomSeq[r] + 1
    BY <1>1 DEF Broadcast, TypeOK
  <2>3. \A q \in Rooms : q # r => roomBuffers'[q] = roomBuffers[q] /\ roomSeq'[q] = roomSeq[q]
    BY <1>1 DEF Broadcast, TypeOK
  <2>4. roomBuffers'[r] = new
    BY <2>2 DEF TypeOK
  <2> HIDE DEF entry
  <2>5. /\ full \in Seq(Entry) /\ Len(full) = Len(old) + 1 /\ Len(old) \in Nat
        /\ \A i \in 1 .. Len(old) : full[i] = old[i]
        /\ full[Len(old) + 1] = entry
    BY <2>1
  <2>6. \A i \in 1 .. Len(full) : full[i].seq = roomSeq'[r] - Len(full) + i
    <3> SUFFICES ASSUME NEW i \in 1 .. Len(full)
                 PROVE  full[i].seq = roomSeq'[r] - Len(full) + i
      OBVIOUS
    <3>1. CASE i \in 1 .. Len(old)
      <4>1. old[i].seq = roomSeq[r] - Len(old) + i
        BY <3>1 DEF BufferContiguous
      <4>2. QED
        BY <2>1, <2>2, <2>5, <3>1, <4>1
    <3>2. CASE i = Len(old) + 1
      <4>1. full[i].seq = roomSeq[r] + 1
        BY <2>1, <2>5, <3>2
      <4>2. QED
        BY <2>1, <2>2, <2>5, <3>2, <4>1
    <3>3. QED
      BY <2>5, <3>1, <3>2
  <2> HIDE DEF full
  <2>7. /\ new \in Seq(Entry) /\ Len(new) <= Len(full)
        /\ \A i \in 1 .. Len(new) : new[i] = full[Len(full) - Len(new) + i]
    BY <2>5, EvictIsSuffix
  <2>8. Len(new) \in Nat /\ Len(full) \in Nat
    BY <2>5, <2>7, LenProperties
  <2> HIDE DEF new
  <2>9. Len(new) <= roomSeq'[r]
    <3>1. Len(old) <= roomSeq[r]
      BY DEF BufferContiguous
    <3>2. QED
      BY <2>1, <2>2, <2>5, <2>7, <2>8, <3>1
  <2>10. ASSUME NEW i \in 1 .. Len(new)
         PROVE  new[i].seq = roomSeq'[r] - Len(new) + i
    <3> DEFINE j == Len(full) - Len(new) + i
    <3>1. j \in 1 .. Len(full) /\ i \in Nat
      BY <2>7, <2>8
    <3>2. full[j].seq = roomSeq'[r] - Len(full) + j
      BY <2>6, <3>1
    <3>3. new[i] = full[j]
      BY <2>7
    <3>4. roomSeq'[r] - Len(full) + j = roomSeq'[r] - Len(new) + i
      BY <2>1, <2>2, <2>8, <3>1
    <3>5. QED
      BY <3>2, <3>3, <3>4
  <2>11. QED
    BY <2>3, <2>4, <2>9, <2>10 DEF BufferContiguous
<1>2. CASE UNCHANGED <<roomSeq, roomBuffers>>
  BY <1>2 DEF BufferContiguous
<1>3. QED
  BY <1>1, <1>2
     DEF Next, Join, Leave, Disconnect, UpdateClientId, Ack, SocketCloses, Tick, vars

\* A contiguous buffer makes every answer of handleReconnect() exact.
LEMMA ContiguousReplays ==
  ASSUME TypeOK, BufferContiguous PROVE ReplayExact
<1> SUFFICES ASSUME NEW r \in Rooms
             PROVE  LET buffer == roomBuffers[r]
                        held == {buffer[i].seq : i \in 1 .. Len(buffer)}
                    IN
                    /\ \A i, j \in 1 .. Len(buffer) : i < j => buffer[i].seq < buffer[j].seq
                    /\ \A from \in 0 .. (MaxSeq + 1) :
                         LET reply == HandleReconnect(r, 0, from)
                         IN  /\ reply.type = "replay" =>
                                  {e.seq : e \in reply.messages} = (from + 1) .. roomSeq[r]
                             /\ reply.type = "replay_complete" => from = roomSeq[r]
                             /\ reply.type = "replay_gap" =>
                                  from > roomSeq[r] \/ ~((from + 1) .. roomSeq[r] \subseteq held)
  BY DEF ReplayExact
<1> DEFINE buffer == roomBuffers[r]
           n == Len(buffer)
           current == roomSeq[r]
           held == {buffer[i].seq : i \in 1 .. n}
<1>1. n \in Nat /\ current \in Nat /\ n <= current
  BY LenProperties DEF TypeOK, BufferContiguous
<1>2. \A i \in 1 .. n : buffer[i].seq = current - n + i
  BY DEF BufferContiguous
<1> HIDE DEF buffer, n, current
<1>3. held = (current - n + 1) .. current
  <2>1. ASSUME NEW s \in held PROVE s \in (current - n + 1) .. current
    <3>1. PICK i \in 1 .. n : s = buffer[i].seq
      OBVIOUS
    <3>2. QED
      BY <1>1, <1>2, <3>1
  <2>2. ASSUME NEW s \in (current - n + 1) .. current PROVE s \in held
    <3>1. s - (current - n) \in 1 .. n
      BY <1>1
    <3>2. buffer[s - (current - n)].seq = s
      BY <1>1, <1>2, <3>1
    <3>3. QED
      BY <3>1, <3>2
  <2>3. QED
    BY <2>1, <2>2
<1>4. \A i, j \in 1 .. n : i < j => buffer[i].seq < buffer[j].seq
  BY <1>1, <1>2
<1>5. ASSUME NEW from \in 0 .. (MaxSeq + 1)
      PROVE  LET reply == HandleReconnect(r, 0, from)
             IN  /\ reply.type = "replay" =>
                      {e.seq : e \in reply.messages} = (from + 1) .. current
                 /\ reply.type = "replay_complete" => from = current
                 /\ reply.type = "replay_gap" =>
                      from > current \/ ~((from + 1) .. current \subseteq held)
  <2> DEFINE reply == HandleReconnect(r, 0, from)
             kept == {buffer[i] : i \in {i \in 1 .. n : buffer[i].seq > from}}
  <2>1. from \in Nat /\ from >= 0
    BY LimitAssumption
  <2>2. CASE from = current
    <3>1. reply.type = "replay_complete"
      BY <2>1, <2>2 DEF HandleReconnect, buffer, current
    <3>2. QED
      BY <2>2, <3>1
  <2>3. CASE from # current /\ n > 0 /\ from >= buffer[1].seq - 1 /\ from < current
    <3>1. reply = [type |-> "replay", fromSeq |-> from, messages |-> kept]
      BY <2>1, <2>3 DEF HandleReconnect, buffer, current, n
    <3>2. from >= current - n
      BY <1>1, <1>2, <2>1, <2>3
    <3>3. ASSUME NEW s \in {e.seq : e \in kept} PROVE s \in (from + 1) .. current
      <4>1. PICK i \in 1 .. n : buffer[i].seq > from /\ s = buffer[i].seq
        OBVIOUS
      <4>2. QED
        BY <1>1, <1>2, <2>1, <4>1
    <3>4. ASSUME NEW s \in (from + 1) .. current PROVE s \in {e.seq : e \in kept}
      <4>1. s - (current - n) \in 1 .. n
        BY <1>1, <2>1, <3>2
      <4>2. buffer[s - (current - n)].seq = s /\ s > from
        BY <1>1, <1>2, <2>1, <4>1
      <4>3. buffer[s - (current - n)] \in kept
        BY <4>1, <4>2
      <4>4. QED
        BY <4>2, <4>3
    <3>5. {e.seq : e \in kept} = (from + 1) .. current
      BY <3>3, <3>4
    <3>6. reply.type = "replay" /\ reply.messages = kept
      BY <3>1
    <3>7. QED
      BY <3>5, <3>6
  <2>4. CASE from # current /\ ~(n > 0 /\ from >= buffer[1].seq - 1 /\ from < current)
    <3>1. reply.type = "replay_gap"
      BY <2>1, <2>4 DEF HandleReconnect, buffer, current, n
    <3>2. from > current \/ ~((from + 1) .. current \subseteq held)
      <4>1. SUFFICES ASSUME from < current PROVE from + 1 \notin held
        BY <1>1, <2>1, <2>4
      <4>2. CASE n = 0
        BY <4>2
      <4>3. CASE n > 0
        <5>1. buffer[1].seq = current - n + 1
          BY <1>1, <1>2, <4>3
        <5>2. from < current - n
          BY <1>1, <2>1, <2>4, <4>1, <4>3, <5>1
        <5>3. from + 1 \notin (current - n + 1) .. current
          BY <1>1, <2>1, <5>2
        <5>4. QED
          BY <1>3, <5>3
      <4>4. QED
        BY <1>1, <4>2, <4>3
    <3>3. QED
      BY <3>1, <3>2
  <2>5. QED
    BY <2>2, <2>3, <2>4
<1>6. QED
  BY <1>4, <1>5 DEF buffer, n, current

\* Whatever is broadcast and evicted, by count or by bytes, a reconnecting client
\* is replayed exactly what it missed, or is told that it cannot be.
THEOREM ReplayAlwaysExact == Spec => []ReplayExact
<1>1. Init => BufferContiguous
  BY DEF Init, BufferContiguous
<1>2. TypeOK /\ BufferContiguous => ReplayExact
  BY ContiguousReplays
<1>3. QED
  BY <1>1, <1>2, TypeCorrect, BufferNext, PTL DEF Spec

-------------------------------------------------------------------------------
(* The ACK window *)

\* The elements of a finite set of numbers above a mark are at most as many more
\* as the mark moved than the elements above the higher mark.
LEMMA AboveMark ==
  ASSUME NEW S \in SUBSET Nat, IsFiniteSet(S), NEW h \in Nat, NEW q \in Nat, h <= q
  PROVE  Cardinality({s \in S : s > h}) <= Cardinality({s \in S : s > q}) + (q - h)
<1> DEFINE A == {s \in S : s > h}
           B == {s \in S : s > q}
           D == {s \in S : s > h /\ s <= q}
<1>1. IsFiniteSet(A) /\ IsFiniteSet(B) /\ IsFiniteSet(D)
  BY FS_Subset
<1>2. IsFiniteSet((h + 1) .. q) /\ Cardinality((h + 1) .. q) = q - h
  <2>1. h + 1 \in Int /\ q \in Int
    OBVIOUS
  <2>2. /\ IsFiniteSet((h + 1) .. q)
        /\ Cardinality((h + 1) .. q) = IF h + 1 > q THEN 0 ELSE q - (h + 1) + 1
    BY <2>1, FS_Interval, Zenon
  <2>3. (IF h + 1 > q THEN 0 ELSE q - (h + 1) + 1) = q - h
    OBVIOUS
  <2>4. QED
    BY <2>2, <2>3
<1>3. D \in SUBSET ((h + 1) .. q)
  <2> SUFFICES ASSUME NEW s \in D PROVE s \in (h + 1) .. q
    OBVIOUS
  <2>1. s \in Nat /\ s > h /\ s <= q
    OBVIOUS
  <2>2. QED
    BY <2>1
<1>4. Cardinality(D) <= q - h
  BY <1>2, <1>3, FS_Subset
<1>5. A = B \cup D /\ B \cap D = {}
  <2>1. \A s \in S : /\ s > h <=> s > q \/ (s > h /\ s <= q)
                     /\ ~(s > q /\ s <= q)
    OBVIOUS
  <2>2. QED
    BY <2>1, Zenon
<1>6. Cardinality(A) = Cardinality(B) + Cardinality(D) - Cardinality(B \cap D)
  BY <1>1, <1>5, FS_Union
<1>7. Cardinality(B \cap D) = 0
  BY <1>5, FS_EmptySet
<1>8. Cardinality(A) \in Nat /\ Cardinality(B) \in Nat /\ Cardinality(D) \in Nat
  BY <1>1, FS_CardinalityType
<1>9. QED
  BY <1>4, <1>6, <1>7, <1>8

\* The inductive invariant of the window: what the acknowledgements cover stays
\* below the room's sequence number, so that what is sent later is not yet
\* covered; the count stays below what is outstanding; a pause means a full
\* window.
WindowOf(c, r) ==
  /\ sent[c][r] \subseteq 1 .. roomSeq[r]
  /\ CoveredUpTo(c, r) <= roomSeq[r]
  /\ ackState[c][r].unackedCount <= Cardinality(Outstanding(c, r))
  /\ ackState[c][r].paused =>
       /\ AckWindowSize # Infinity
       /\ ackState[c][r].unackedCount >= AckWindowSize
  /\ AckWindowSize = Infinity => ackState[c][r].unackedCount = 0

WindowInv == \A c \in Clients, r \in Rooms : WindowOf(c, r)

LEMMA SentFinite ==
  ASSUME TypeOK, NEW c \in Clients, NEW r \in Rooms, sent[c][r] \subseteq 1 .. roomSeq[r]
  PROVE  IsFiniteSet(sent[c][r]) /\ sent[c][r] \in SUBSET Nat
         /\ IsFiniteSet(Outstanding(c, r)) /\ Cardinality(Outstanding(c, r)) \in Nat
<1>1. roomSeq[r] \in Nat
  BY DEF TypeOK
<1>2. IsFiniteSet(1 .. roomSeq[r])
  BY <1>1, FS_Interval
<1>3. IsFiniteSet(sent[c][r]) /\ sent[c][r] \in SUBSET Nat
  BY <1>2, FS_Subset DEF TypeOK
<1>4. Outstanding(c, r) \in SUBSET sent[c][r]
  BY DEF Outstanding
<1>5. QED
  BY <1>3, <1>4, FS_Subset, FS_CardinalityType

LEMMA WindowNext == TypeOK /\ WindowInv /\ [Next]_vars => WindowInv'
<1> SUFFICES ASSUME TypeOK, WindowInv, [Next]_vars, NEW c \in Clients, NEW r \in Rooms
             PROVE  WindowOf(c, r)'
  BY DEF WindowInv
<1> USE DEF membership, log, flow
<1> DEFINE a == ackState[c][r]
           b == ackState'[c][r]
<1>0. /\ WindowOf(c, r) /\ a \in AckRecord /\ roomSeq[r] \in Nat
      /\ a.highestAckedSeq \in Nat /\ a.unackedCount \in Nat
      /\ CoveredUpTo(c, r) \in Nat
  BY DEF WindowInv, TypeOK, AckRecord, CoveredUpTo
<1>01. /\ IsFiniteSet(sent[c][r]) /\ sent[c][r] \in SUBSET Nat
       /\ IsFiniteSet(Outstanding(c, r)) /\ Cardinality(Outstanding(c, r)) \in Nat
  BY <1>0, SentFinite DEF WindowOf
<1>cover. ASSUME ackState'[c][r].highestAckedSeq = a.highestAckedSeq,
                 <<c, r>> \in ahead' <=> <<c, r>> \in ahead
          PROVE  CoveredUpTo(c, r)' = CoveredUpTo(c, r)
  BY <1>cover DEF CoveredUpTo
<1>same. ASSUME UNCHANGED <<ackState[c][r], sent[c][r], roomSeq[r]>>,
                <<c, r>> \in ahead' <=> <<c, r>> \in ahead
         PROVE  WindowOf(c, r)'
  BY <1>0, <1>same, <1>cover DEF WindowOf, Outstanding
<1>fresh. ASSUME ackState'[c][r] = FreshAck, sent'[c][r] = {}, roomSeq'[r] = roomSeq[r]
          PROVE  WindowOf(c, r)'
  <2>0. CoveredUpTo(c, r)' = 0
    BY <1>fresh DEF CoveredUpTo, FreshAck
  <2>1. Outstanding(c, r)' = {}
    BY <1>fresh DEF Outstanding
  <2>2. Cardinality(Outstanding(c, r)') = 0
    BY <2>1, FS_EmptySet
  <2>3. QED
    BY <1>0, <1>fresh, <2>0, <2>2 DEF WindowOf, FreshAck
<1>1. ASSUME NEW d \in Clients, NEW q \in Rooms, Leave(d, q)
      PROVE  WindowOf(c, r)'
  <2>1. CASE c # d \/ r # q
    <3>1. /\ UNCHANGED <<ackState[c][r], sent[c][r], roomSeq[r]>>
          /\ <<c, r>> \in ahead' <=> <<c, r>> \in ahead
      BY <1>1, <2>1 DEF Leave, TypeOK
    <3>2. QED
      BY <3>1, <1>same
  <2>2. CASE c = d /\ r = q /\ AckWindowSize # Infinity
    BY <1>1, <1>fresh, <2>2 DEF Leave, TypeOK
  <2>3. CASE c = d /\ r = q /\ AckWindowSize = Infinity
    <3>1. sent'[c][r] = {} /\ ackState'[c][r] = a /\ roomSeq'[r] = roomSeq[r] /\ ahead' = ahead
      BY <1>1, <2>3 DEF Leave, TypeOK
    <3>2. Outstanding(c, r)' = {}
      BY <3>1 DEF Outstanding
    <3>3. Cardinality(Outstanding(c, r)') = 0
      BY <3>2, FS_EmptySet
    <3>4. QED
      BY <1>0, <1>cover, <2>3, <3>1, <3>3 DEF WindowOf
  <2>4. QED
    BY <2>1, <2>2, <2>3
<1>2. ASSUME NEW d \in Clients, Disconnect(d)
      PROVE  WindowOf(c, r)'
  <2>1. CASE c # d
    <3>1. /\ UNCHANGED <<ackState[c][r], sent[c][r], roomSeq[r]>>
          /\ <<c, r>> \in ahead' <=> <<c, r>> \in ahead
      BY <1>2, <2>1 DEF Disconnect, TypeOK
    <3>2. QED
      BY <3>1, <1>same
  <2>2. CASE c = d
    BY <1>2, <1>fresh, <2>2 DEF Disconnect, TypeOK
  <2>3. QED
    BY <2>1, <2>2
<1>3. ASSUME NEW q \in Rooms, NEW m \in Updates \cup {Plain}, NEW bytes \in Sizes,
             NEW exclude \in Clients \cup {NoClient}, Broadcast(q, m, bytes, exclude)
      PROVE  WindowOf(c, r)'
  <2> DEFINE seq == roomSeq[r] + 1
  <2>1. CASE q # r
    <3>1. /\ UNCHANGED <<ackState[c][r], sent[c][r], roomSeq[r]>>
          /\ <<c, r>> \in ahead' <=> <<c, r>> \in ahead
      BY <1>3, <2>1 DEF Broadcast, PutWhere, TypeOK
    <3>2. QED
      BY <3>1, <1>same
  <2>2. CASE q = r
    <3>1. roomSeq'[r] = seq /\ ahead' = ahead
      BY <1>3, <2>2 DEF Broadcast, TypeOK
    <3>2. CASE ackState'[c][r] = a /\ sent'[c][r] = sent[c][r]
      <4>1. CoveredUpTo(c, r)' = CoveredUpTo(c, r) /\ Outstanding(c, r)' = Outstanding(c, r)
        BY <1>cover, <3>1, <3>2 DEF Outstanding
      <4>2. QED
        BY <1>0, <3>1, <3>2, <4>1 DEF WindowOf
    <3>3. CASE /\ sent'[c][r] = sent[c][r]
               /\ WindowFull(c, r)
               /\ b = [a EXCEPT !.paused = TRUE]
      <4>1. /\ b.highestAckedSeq = a.highestAckedSeq
            /\ b.unackedCount = a.unackedCount
        BY <1>0, <3>3 DEF AckRecord
      <4>2. CoveredUpTo(c, r)' = CoveredUpTo(c, r) /\ Outstanding(c, r)' = Outstanding(c, r)
        BY <1>cover, <3>1, <3>3, <4>1 DEF Outstanding
      <4>3. AckWindowSize # Infinity /\ a.unackedCount >= AckWindowSize
        BY <1>0, <3>3 DEF WindowFull, WindowOf
      <4>4. QED
        BY <1>0, <3>1, <3>3, <4>1, <4>2, <4>3 DEF WindowOf
    <3>4. CASE /\ sent'[c][r] = sent[c][r] \cup {seq}
               /\ AckWindowSize # Infinity
               /\ ~a.paused
               /\ b = [a EXCEPT !.unackedCount = @ + 1]
      <4>1. /\ b.highestAckedSeq = a.highestAckedSeq
            /\ b.unackedCount = a.unackedCount + 1
            /\ b.paused = a.paused
        BY <1>0, <3>4 DEF AckRecord
      <4>2. Outstanding(c, r)' = Outstanding(c, r) \cup {seq} /\ seq \notin Outstanding(c, r)
        <5>1. seq > CoveredUpTo(c, r) /\ seq \notin sent[c][r]
          BY <1>0 DEF WindowOf
        <5>2. CoveredUpTo(c, r)' = CoveredUpTo(c, r)
          BY <1>cover, <3>1, <4>1
        <5>3. QED
          BY <3>4, <5>1, <5>2 DEF Outstanding
      <4>3. Cardinality(Outstanding(c, r)') = Cardinality(Outstanding(c, r)) + 1
        BY <1>01, <4>2, FS_AddElement
      <4>4. sent'[c][r] \subseteq 1 .. roomSeq'[r]
        BY <1>0, <3>1, <3>4 DEF WindowOf
      <4>5. b.unackedCount <= Cardinality(Outstanding(c, r)')
        BY <1>0, <1>01, <4>1, <4>3 DEF WindowOf
      <4>6. CoveredUpTo(c, r)' <= roomSeq'[r]
        BY <1>0, <1>cover, <3>1, <4>1 DEF WindowOf
      <4>7. QED
        BY <3>4, <4>1, <4>4, <4>5, <4>6 DEF WindowOf
    <3>5. CASE /\ sent'[c][r] = sent[c][r] \cup {seq}
               /\ AckWindowSize = Infinity
               /\ b = a
      <4>1. Outstanding(c, r)' = Outstanding(c, r) \cup {seq}
        <5>1. seq > CoveredUpTo(c, r)
          BY <1>0 DEF WindowOf
        <5>2. QED
          BY <1>cover, <3>1, <3>5, <5>1 DEF Outstanding
      <4>2. Cardinality(Outstanding(c, r)') \in Nat
        BY <1>01, <4>1, FS_AddElement, FS_CardinalityType
      <4>3. sent'[c][r] \subseteq 1 .. roomSeq'[r]
        BY <1>0, <3>1, <3>5 DEF WindowOf
      <4>4. a.unackedCount = 0 /\ ~a.paused
        BY <1>0, <3>5 DEF WindowOf
      <4>5. QED
        BY <1>0, <1>cover, <3>1, <3>5, <4>2, <4>3, <4>4 DEF WindowOf
    <3>6. \/ ackState'[c][r] = a /\ sent'[c][r] = sent[c][r]
          \/ /\ sent'[c][r] = sent[c][r]
             /\ WindowFull(c, r)
             /\ b = [a EXCEPT !.paused = TRUE]
          \/ /\ sent'[c][r] = sent[c][r] \cup {seq}
             /\ ~WindowFull(c, r)
             /\ b = AfterBroadcast(c, r)
      <4>1. b = IF Eligible(c, r, exclude) THEN AfterBroadcast(c, r) ELSE a
        BY <1>3, <2>2 DEF Broadcast, PutWhere
      <4>2. sent'[c][r] = IF Eligible(c, r, exclude) /\ ~WindowFull(c, r)
                          THEN sent[c][r] \cup {seq} ELSE sent[c][r]
        BY <1>3, <2>2 DEF Broadcast, PutWhere
      <4>3. WindowFull(c, r) => AfterBroadcast(c, r) = [a EXCEPT !.paused = TRUE]
        BY DEF AfterBroadcast, WindowFull
      <4>4. QED
        BY <4>1, <4>2, <4>3
    <3>7. ~WindowFull(c, r) =>
            \/ AckWindowSize = Infinity /\ AfterBroadcast(c, r) = a
            \/ /\ AckWindowSize # Infinity
               /\ ~a.paused
               /\ AfterBroadcast(c, r) = [a EXCEPT !.unackedCount = @ + 1]
      BY DEF AfterBroadcast, WindowFull
    <3>8. QED
      BY <3>2, <3>3, <3>4, <3>5, <3>6, <3>7
  <2>3. QED
    BY <2>1, <2>2
<1>4. ASSUME NEW d \in Clients, NEW q \in Rooms, NEW seq \in Acks, Ack(d, q, seq)
      PROVE  WindowOf(c, r)'
  <2>1. CASE c # d \/ r # q
    <3>1. /\ UNCHANGED <<ackState[c][r], sent[c][r], roomSeq[r]>>
          /\ <<c, r>> \in ahead' <=> <<c, r>> \in ahead
      BY <1>4, <2>1 DEF Ack, TypeOK
    <3>2. QED
      BY <3>1, <1>same
  <2>2. CASE c = d /\ r = q
    <3> DEFINE freed == [a EXCEPT !.highestAckedSeq = seq,
                                  !.unackedCount = Monus(@, seq - a.highestAckedSeq)]
               f == IF seq > a.highestAckedSeq THEN freed ELSE a
               mark == IF <<c, r>> \in ahead' THEN 0 ELSE f.highestAckedSeq
               O == {s \in sent[c][r] : s > mark}
    <3>1. /\ b = AckedBy(a, seq) /\ sent'[c][r] = sent[c][r] /\ roomSeq'[r] = roomSeq[r]
          /\ <<c, r>> \in ahead' <=> <<c, r>> \in ahead \/ seq > roomSeq[r]
          /\ seq \in Nat
      BY <1>4, <2>2, LimitAssumption DEF Ack, TypeOK
    <3>2. \/ b = f /\ ~(f.paused /\ ~Reached(f.unackedCount, AckWindowSize))
          \/ b = [f EXCEPT !.paused = FALSE]
      BY <3>1 DEF AckedBy
    <3>3. /\ f \in AckRecord
          /\ f.paused = a.paused
          /\ f.unackedCount = IF seq > a.highestAckedSeq
                              THEN Monus(a.unackedCount, seq - a.highestAckedSeq)
                              ELSE a.unackedCount
          /\ f.highestAckedSeq = IF seq > a.highestAckedSeq THEN seq ELSE a.highestAckedSeq
      <4>1. CASE ~(seq > a.highestAckedSeq)
        BY <1>0, <4>1
      <4>2. CASE seq > a.highestAckedSeq
        <5>1. Monus(a.unackedCount, seq - a.highestAckedSeq) \in Nat
          BY <1>0, <3>1, <4>2 DEF Monus
        <5>2. QED
          BY <1>0, <3>1, <4>2, <5>1 DEF AckRecord
      <4>3. QED
        BY <4>1, <4>2
    <3>4. f.unackedCount \in Nat /\ f.highestAckedSeq \in Nat
      BY <3>3 DEF AckRecord
    <3> HIDE DEF f
    <3>5. f.unackedCount <= a.unackedCount
      BY <1>0, <3>1, <3>3 DEF Monus
    <3>6. mark \in Nat /\ mark <= roomSeq[r]
      BY <1>0, <3>1, <3>3, <3>4 DEF WindowOf, CoveredUpTo
    <3>7. IsFiniteSet(O) /\ Cardinality(O) \in Nat
      BY <1>01, FS_Subset, FS_CardinalityType
    <3>8. f.unackedCount <= Cardinality(O)
      <4>1. CASE <<c, r>> \in ahead'
        <5>1. Outstanding(c, r) \in SUBSET O
          BY <1>0, <1>01, <4>1 DEF Outstanding
        <5>2. Cardinality(Outstanding(c, r)) <= Cardinality(O)
          BY <3>7, <5>1, FS_Subset
        <5>3. a.unackedCount <= Cardinality(Outstanding(c, r))
          BY <1>0 DEF WindowOf
        <5> HIDE DEF O
        <5>4. QED
          BY <1>0, <1>01, <3>4, <3>5, <3>7, <5>2, <5>3
      <4>2. CASE <<c, r>> \notin ahead'
        <5>1. CoveredUpTo(c, r) = a.highestAckedSeq /\ mark = f.highestAckedSeq
          BY <3>1, <4>2 DEF CoveredUpTo
        <5>2. a.highestAckedSeq <= mark
          BY <1>0, <3>1, <3>3, <5>1
        <5>3. Outstanding(c, r) = {s \in sent[c][r] : s > a.highestAckedSeq}
          BY <5>1 DEF Outstanding
        <5> HIDE DEF mark
        <5>4. Cardinality({s \in sent[c][r] : s > a.highestAckedSeq})
                <= Cardinality({s \in sent[c][r] : s > mark}) + (mark - a.highestAckedSeq)
          BY <1>0, <1>01, <3>6, <5>2, AboveMark
        <5> HIDE DEF O
        <5>5. a.unackedCount <= Cardinality(O) + (mark - a.highestAckedSeq)
          <6>1. Cardinality(Outstanding(c, r)) <= Cardinality(O) + (mark - a.highestAckedSeq)
            BY <5>3, <5>4 DEF O
          <6>2. a.unackedCount <= Cardinality(Outstanding(c, r))
            BY <1>0 DEF WindowOf
          <6>3. QED
            BY <1>0, <1>01, <3>6, <3>7, <6>1, <6>2
        <5>6. QED
          BY <1>0, <3>1, <3>3, <3>6, <3>7, <5>1, <5>5 DEF Monus
      <4>3. QED
        BY <4>1, <4>2
    <3>9. AckWindowSize = Infinity => f.unackedCount = 0
      BY <1>0, <3>4, <3>5 DEF WindowOf
    <3>10. ASSUME b.highestAckedSeq = f.highestAckedSeq
           PROVE  CoveredUpTo(c, r)' = mark /\ Outstanding(c, r)' = O
      BY <3>1, <3>10 DEF CoveredUpTo, Outstanding
    <3> HIDE DEF O, mark
    <3>11. CASE b = f /\ ~(f.paused /\ ~Reached(f.unackedCount, AckWindowSize))
      <4>1. f.paused => AckWindowSize # Infinity /\ f.unackedCount >= AckWindowSize
        BY <3>11 DEF Reached
      <4>2. QED
        BY <1>0, <3>1, <3>6, <3>8, <3>9, <3>10, <3>11, <4>1 DEF WindowOf
    <3>12. CASE b = [f EXCEPT !.paused = FALSE]
      <4>1. /\ b.highestAckedSeq = f.highestAckedSeq
            /\ b.unackedCount = f.unackedCount
            /\ b.paused = FALSE
        BY <3>3, <3>12 DEF AckRecord
      <4>2. QED
        BY <1>0, <3>1, <3>6, <3>8, <3>9, <3>10, <4>1 DEF WindowOf
    <3>13. QED
      BY <3>2, <3>11, <3>12
  <2>3. QED
    BY <2>1, <2>2
<1>5. CASE UNCHANGED <<ackState, sent, roomSeq, ahead>>
  BY <1>5, <1>same
<1>6. QED
  BY <1>1, <1>2, <1>3, <1>4, <1>5
     DEF Next, Join, UpdateClientId, SocketCloses, Tick, vars

\* Acknowledging the room's newest number empties the window of a client that
\* never ran ahead.
LEMMA NewestAckResumes ==
  ASSUME TypeOK, NEW c \in Clients, NEW r \in Rooms, WindowOf(c, r),
         AckWindowSize # Infinity, AckWindowSize # 0, <<c, r>> \notin ahead
  PROVE  ~AckedBy(ackState[c][r], roomSeq[r]).paused
<1> DEFINE a == ackState[c][r]
           h == a.highestAckedSeq
           f == [a EXCEPT !.highestAckedSeq = roomSeq[r],
                          !.unackedCount = Monus(@, roomSeq[r] - h)]
<1>1. /\ a \in AckRecord /\ h \in Nat /\ a.unackedCount \in Nat /\ a.paused \in BOOLEAN
      /\ roomSeq[r] \in Nat /\ h <= roomSeq[r] /\ AckWindowSize \in Nat
  BY LimitAssumption DEF TypeOK, AckRecord, WindowOf, CoveredUpTo, Limit
<1>2. Outstanding(c, r) = {s \in sent[c][r] : s > h}
  BY DEF Outstanding, CoveredUpTo
<1>3. IsFiniteSet(sent[c][r]) /\ sent[c][r] \in SUBSET Nat
  BY SentFinite DEF WindowOf
<1>4. Cardinality({s \in sent[c][r] : s > roomSeq[r]}) = 0
  <2>1. {s \in sent[c][r] : s > roomSeq[r]} = {}
    BY <1>1 DEF WindowOf
  <2>2. QED
    BY <2>1, FS_EmptySet
<1>5. Cardinality({s \in sent[c][r] : s > h})
        <= Cardinality({s \in sent[c][r] : s > roomSeq[r]}) + (roomSeq[r] - h)
  <2> HIDE DEF h
  <2>1. QED
    BY <1>1, <1>3, AboveMark
<1>6. Cardinality(Outstanding(c, r)) \in Nat /\ a.unackedCount <= Cardinality(Outstanding(c, r))
  BY SentFinite DEF WindowOf
<1>7. a.unackedCount <= roomSeq[r] - h
  <2> HIDE DEF h, a
  <2>1. Cardinality(Outstanding(c, r)) <= 0 + (roomSeq[r] - h)
    BY <1>2, <1>4, <1>5
  <2>2. QED
    BY <1>1, <1>6, <2>1
<1>8. CASE roomSeq[r] > h
  <2>1. Monus(a.unackedCount, roomSeq[r] - h) = 0
    BY <1>1, <1>7 DEF Monus
  <2>2. f.unackedCount = 0 /\ f \in AckRecord
    <3>1. f = [a EXCEPT !.highestAckedSeq = roomSeq[r], !.unackedCount = 0]
      BY <2>1
    <3> HIDE DEF f, a
    <3>2. f.unackedCount = 0 /\ f \in AckRecord
      BY <1>1, <3>1 DEF AckRecord
    <3>3. QED
      BY <3>2
  <2>3. ~Reached(f.unackedCount, AckWindowSize)
    BY <1>1, <2>2 DEF Reached
  <2>4. AckedBy(a, roomSeq[r]) = IF f.paused THEN [f EXCEPT !.paused = FALSE] ELSE f
    BY <1>8, <2>3 DEF AckedBy
  <2>5. [f EXCEPT !.paused = FALSE].paused = FALSE
    BY <2>2 DEF AckRecord
  <2> HIDE DEF f, a
  <2>6. ~AckedBy(a, roomSeq[r]).paused
    BY <2>4, <2>5, Zenon
  <2>7. QED
    BY <2>6 DEF a
<1>9. CASE ~(roomSeq[r] > h)
  <2>1. a.unackedCount = 0
    BY <1>1, <1>7, <1>9
  <2>2. ~Reached(a.unackedCount, AckWindowSize)
    BY <1>1, <2>1 DEF Reached
  <2>3. AckedBy(a, roomSeq[r]) = IF a.paused THEN [a EXCEPT !.paused = FALSE] ELSE a
    BY <1>9, <2>2 DEF AckedBy
  <2>4. [a EXCEPT !.paused = FALSE].paused = FALSE
    BY <1>1 DEF AckRecord
  <2> HIDE DEF a
  <2>5. ~AckedBy(a, roomSeq[r]).paused
    BY <2>3, <2>4, Zenon
  <2>6. QED
    BY <2>5 DEF a
<1>10. QED
  BY <1>8, <1>9

LEMMA WindowInvImplies ==
  ASSUME TypeOK, WindowInv PROVE UnackedIsOutstanding /\ PausedCanResume
<1>1. UnackedIsOutstanding
  BY DEF WindowInv, WindowOf, UnackedIsOutstanding
<1>2. ASSUME NEW c \in Clients, NEW r \in Rooms, ackState[c][r].paused
      PROVE  /\ AckWindowSize # Infinity
             /\ Cardinality(Outstanding(c, r)) >= AckWindowSize
             /\ AckWindowSize # 0 /\ <<c, r>> \notin ahead =>
                  ~AckedBy(ackState[c][r], roomSeq[r]).paused
  <2>1. /\ AckWindowSize # Infinity
        /\ ackState[c][r].unackedCount >= AckWindowSize
        /\ ackState[c][r].unackedCount <= Cardinality(Outstanding(c, r))
    BY <1>2 DEF WindowInv, WindowOf
  <2>2. Cardinality(Outstanding(c, r)) \in Nat
    BY SentFinite DEF WindowInv, WindowOf
  <2>3. AckWindowSize \in Nat
    BY <2>1, LimitAssumption DEF Limit
  <2>4. ackState[c][r].unackedCount \in Nat
    BY DEF TypeOK, AckRecord
  <2>5. Cardinality(Outstanding(c, r)) >= AckWindowSize
    BY <2>1, <2>2, <2>3, <2>4
  <2>6. AckWindowSize # 0 /\ <<c, r>> \notin ahead =>
          ~AckedBy(ackState[c][r], roomSeq[r]).paused
    BY <2>1, NewestAckResumes DEF WindowInv
  <2>7. QED
    BY <2>1, <2>5, <2>6
<1>3. QED
  BY <1>1, <1>2 DEF PausedCanResume

LEMMA WindowInit == Init => WindowInv
<1> SUFFICES ASSUME Init, NEW c \in Clients, NEW r \in Rooms PROVE WindowOf(c, r)
  BY DEF WindowInv
<1>1. /\ sent[c][r] = {} /\ ackState[c][r] = FreshAck /\ roomSeq[r] = 0
      /\ CoveredUpTo(c, r) = 0
  BY DEF Init, CoveredUpTo, FreshAck
<1>2. Outstanding(c, r) = {}
  BY <1>1 DEF Outstanding
<1>3. Cardinality(Outstanding(c, r)) = 0
  BY <1>2, FS_EmptySet
<1>4. QED
  BY <1>1, <1>3 DEF WindowOf, FreshAck

\* unackedCount is at most the number of messages really outstanding, for every
\* window size and every order of broadcasts, acknowledgements (of any number)
\* and departures.
THEOREM UnackedAlwaysOutstanding == Spec => []UnackedIsOutstanding
<1>1. TypeOK /\ WindowInv => UnackedIsOutstanding
  BY WindowInvImplies
<1>2. QED
  BY <1>1, WindowInit, WindowNext, TypeCorrect, PTL DEF Spec

\* A paused client has a full window outstanding, and one that acknowledged only
\* numbers its room had assigned is resumed by acknowledging the newest of them.
THEOREM PausedAlwaysCanResume == Spec => []PausedCanResume
<1>1. TypeOK /\ WindowInv => PausedCanResume
  BY WindowInvImplies
<1>2. QED
  BY <1>1, WindowInit, WindowNext, TypeCorrect, PTL DEF Spec


-------------------------------------------------------------------------------
(* The limits of join() *)

\* A count that respects a configured limit.
Within(n, limit) == limit # Infinity => n <= limit

\* The limits hold room by room and for the manager; the counter does not
\* undercount.
RoomWithin(r) ==
  /\ Within(Cardinality(Members(r)), MaxMembersPerRoom)
  /\ Within(Cardinality(Members(r)), MaxRoomSize)
RoomsWithin == \A r \in Rooms : RoomWithin(r)
KeysWithin == Within(Cardinality(liveRooms), MaxRooms)
Counted == totalMembers >= Cardinality(Memberships)

LEMMA LimitsAreParts == LimitsHold <=> RoomsWithin /\ KeysWithin /\ Counted
BY DEF LimitsHold, RoomsWithin, RoomWithin, KeysWithin, Counted, Within

\* Adding an element to a set whose limit is not reached keeps the limit.
LEMMA AddWithin ==
  ASSUME NEW S, IsFiniteSet(S), NEW x, NEW limit \in Limit,
         Within(Cardinality(S), limit), x \in S \/ ~Reached(Cardinality(S), limit)
  PROVE  Within(Cardinality(S \cup {x}), limit)
<1>1. CASE x \in S
  <2>1. S \cup {x} = S
    BY <1>1
  <2>2. QED
    BY <2>1
<1>2. CASE x \notin S
  <2>1. Cardinality(S \cup {x}) = Cardinality(S) + 1 /\ Cardinality(S) \in Nat
    BY <1>2, FS_AddElement, FS_CardinalityType
  <2>2. QED
    BY <1>2, <2>1 DEF Within, Reached, Limit
<1>3. QED
  BY <1>1, <1>2

\* A set no larger than one within the limit is within it.
LEMMA FewerWithin ==
  ASSUME NEW n \in Nat, NEW m \in Nat, m <= n, NEW limit \in Limit, Within(n, limit)
  PROVE  Within(m, limit)
BY DEF Within, Limit

LEMMA MembersFinite ==
  ASSUME TypeOK
  PROVE  /\ \A r \in Rooms : IsFiniteSet(Members(r)) /\ Cardinality(Members(r)) \in Nat
         /\ IsFiniteSet(Memberships) /\ Cardinality(Memberships) \in Nat
         /\ IsFiniteSet(liveRooms) /\ Cardinality(liveRooms) \in Nat
<1>1. ASSUME NEW r \in Rooms PROVE Members(r) \in SUBSET Clients
  BY DEF Members
<1>2. Memberships \in SUBSET (Clients \X Rooms)
  BY DEF Memberships
<1>3. IsFiniteSet(Clients \X Rooms)
  BY IdentifierAssumption, FS_Product
<1>4. liveRooms \in SUBSET Rooms
  BY DEF TypeOK
<1>5. QED
  BY <1>1, <1>2, <1>3, <1>4, IdentifierAssumption, FS_Subset, FS_CardinalityType

\* What the two sets hold after a step, member by member.
LEMMA MembersAfter ==
  ASSUME NEW r \in Rooms, NEW c
  PROVE  c \in Members(r)' <=> c \in Clients /\ rooms'[r][c] # NoSocket
BY DEF Members

LEMMA MembershipsAfter ==
  ASSUME NEW x
  PROVE  x \in Memberships' <=> x \in Clients \X Rooms /\ rooms'[x[2]][x[1]] # NoSocket
BY DEF Memberships, IsMember

LEMMA MembersNow ==
  ASSUME NEW r \in Rooms, NEW c
  PROVE  c \in Members(r) <=> c \in Clients /\ rooms[r][c] # NoSocket
BY DEF Members

LEMMA MembershipsNow ==
  ASSUME NEW x
  PROVE  x \in Memberships <=> x \in Clients \X Rooms /\ rooms[x[2]][x[1]] # NoSocket
BY DEF Memberships, IsMember

\* Replacing one element of a finite set by another leaves no more elements.
LEMMA ReplaceBounds ==
  ASSUME NEW S, IsFiniteSet(S), NEW T, NEW f \in [S -> T],
         \A t \in T : \E s \in S : f[s] = t
  PROVE  IsFiniteSet(T) /\ Cardinality(T) <= Cardinality(S)
<1>1. f \in Surjection(S, T)
  BY DEF Surjection
<1>2. QED
  BY <1>1, FS_Surjection

LEMMA JoinLimits ==
  ASSUME TypeOK, LimitsHold, NEW c \in Clients, NEW r \in Rooms, NEW w \in Sockets,
         NEW heap \in {"low", "mid", "high"}, Join(c, r, w, heap)
  PROVE  LimitsHold'
<1> USE DEF membership
<1>0. RoomsWithin /\ KeysWithin /\ Counted
  BY LimitsAreParts
<1>1. CASE UNCHANGED membership
  BY <1>1 DEF LimitsHold, Members, Memberships, IsMember
<1>2. ASSUME WithinLimits(c, r), liveRooms' = liveRooms \cup {r} PROVE KeysWithin'
  <2>1. r \in liveRooms \/ ~Reached(Cardinality(liveRooms), MaxRooms)
    BY <1>2 DEF WithinLimits
  <2>2. Within(Cardinality(liveRooms \cup {r}), MaxRooms)
    BY <1>0, <2>1, MembersFinite, AddWithin, LimitAssumption DEF KeysWithin
  <2>3. QED
    BY <1>2, <2>2 DEF KeysWithin
<1>3. CASE /\ WithinLimits(c, r)
           /\ liveRooms' = liveRooms \cup {r}
           /\ UNCHANGED <<rooms, clientRooms, liveClients, totalMembers>>
  <2>1. KeysWithin'
    BY <1>2, <1>3
  <2>2. RoomsWithin' /\ Counted'
    BY <1>0, <1>3 DEF RoomsWithin, RoomWithin, Counted, Members, Memberships, IsMember
  <2>3. QED
    BY <2>1, <2>2, LimitsAreParts, PTL
<1>4. CASE WithinLimits(c, r) /\ ~RoomFull(c, r) /\ JoinAccepted(c, r, w)
  <2>1. KeysWithin'
    BY <1>2, <1>4 DEF JoinAccepted
  <2>2. /\ rooms'[r][c] # NoSocket
        /\ \A q \in Rooms, d \in Clients : q # r \/ d # c => rooms'[q][d] = rooms[q][d]
    BY <1>4, IdentifierAssumption DEF JoinAccepted, TypeOK
  <2>3. ASSUME NEW q \in Rooms PROVE RoomWithin(q)'
    <3>1. CASE q # r
      <4>1. Members(q)' = Members(q)
        BY <2>2, <3>1 DEF Members
      <4>2. QED
        BY <1>0, <4>1 DEF RoomsWithin, RoomWithin
    <3>2. CASE q = r
      <4>1. Members(r)' = Members(r) \cup {c}
        BY <2>2, <3>2 DEF Members
      <4>2. c \in Members(r) <=> IsMember(c, r)
        BY DEF Members, IsMember
      <4>3. /\ c \in Members(r) \/ ~Reached(Cardinality(Members(r)), MaxMembersPerRoom)
            /\ c \in Members(r) \/ ~Reached(Cardinality(Members(r)), MaxRoomSize)
        BY <1>4, <4>2 DEF WithinLimits, RoomFull
      <4>4. /\ Within(Cardinality(Members(r)), MaxMembersPerRoom)
            /\ Within(Cardinality(Members(r)), MaxRoomSize)
        BY <1>0 DEF RoomsWithin, RoomWithin
      <4>5. /\ Within(Cardinality(Members(r) \cup {c}), MaxMembersPerRoom)
            /\ Within(Cardinality(Members(r) \cup {c}), MaxRoomSize)
        BY <4>3, <4>4, MembersFinite, AddWithin, LimitAssumption
      <4>6. QED
        BY <3>2, <4>1, <4>5 DEF RoomWithin
    <3>3. QED
      BY <3>1, <3>2
  <2>4. Counted'
    <3>1. ASSUME NEW x
          PROVE  x \in Memberships' <=> x \in Memberships \cup {<<c, r>>}
      <4>1. CASE x \in Clients \X Rooms
        <5>1. PICK d \in Clients, q \in Rooms : x = <<d, q>>
          BY <4>1
        <5>2. x \in Memberships' <=> rooms'[q][d] # NoSocket
          BY <5>1, MembershipsAfter
        <5>3. x \in Memberships <=> rooms[q][d] # NoSocket
          BY <5>1, MembershipsNow
        <5>4. x = <<c, r>> <=> d = c /\ q = r
          BY <5>1
        <5>5. QED
          BY <2>2, <5>2, <5>3, <5>4
      <4>2. CASE x \notin Clients \X Rooms
        BY <4>2, MembershipsAfter, MembershipsNow
      <4>3. QED
        BY <4>1, <4>2
    <3>2. Memberships' = Memberships \cup {<<c, r>>}
      BY <3>1, Zenon
    <3>3. IsMember(c, r) <=> <<c, r>> \in Memberships
      BY MembershipsNow DEF IsMember
    <3>4. IsFiniteSet(Memberships) /\ Cardinality(Memberships) \in Nat
      BY MembersFinite
    <3>5. CASE IsMember(c, r)
      <4>1. Memberships' = Memberships
        BY <3>2, <3>3, <3>5
      <4>2. totalMembers' = totalMembers
        BY <1>4, <3>5 DEF JoinAccepted
      <4>3. QED
        BY <1>0, <4>1, <4>2 DEF Counted
    <3>6. CASE ~IsMember(c, r)
      <4>1. Cardinality(Memberships') = Cardinality(Memberships) + 1
        BY <3>2, <3>3, <3>4, <3>6, FS_AddElement
      <4>2. totalMembers' = totalMembers + 1 /\ totalMembers \in Int
        BY <1>4, <3>6 DEF JoinAccepted, TypeOK
      <4>3. QED
        BY <1>0, <3>4, <4>1, <4>2 DEF Counted
    <3>7. QED
      BY <3>5, <3>6
  <2>5. RoomsWithin'
    BY <2>3 DEF RoomsWithin
  <2>6. QED
    BY <2>1, <2>4, <2>5, LimitsAreParts, PTL
<1>5. QED
  BY <1>1, <1>3, <1>4 DEF Join

\* A step that takes members away, or keeps the counts, keeps the limits.
LEMMA ShrinkKeepsRooms ==
  ASSUME TypeOK, TypeOK', RoomsWithin, KeysWithin, liveRooms' \subseteq liveRooms,
         \A q \in Rooms, d \in Clients : rooms'[q][d] # NoSocket => rooms[q][d] # NoSocket
  PROVE  RoomsWithin' /\ KeysWithin'
<1>1. ASSUME NEW q \in Rooms PROVE RoomWithin(q)'
  <2>1. Members(q)' \in SUBSET Members(q)
    BY DEF Members
  <2>2. Cardinality(Members(q)') <= Cardinality(Members(q)) /\ Cardinality(Members(q)') \in Nat
    BY <2>1, MembersFinite, FS_Subset, FS_CardinalityType
  <2>3. RoomWithin(q) /\ Cardinality(Members(q)) \in Nat
    BY MembersFinite DEF RoomsWithin
  <2>4. QED
    BY <2>2, <2>3, FewerWithin, LimitAssumption DEF RoomWithin
<1>2. KeysWithin'
  <2>1. liveRooms' \in SUBSET liveRooms
    OBVIOUS
  <2>2. Cardinality(liveRooms') <= Cardinality(liveRooms) /\ Cardinality(liveRooms') \in Nat
    BY <2>1, MembersFinite, FS_Subset, FS_CardinalityType
  <2>3. QED
    BY <2>2, MembersFinite, FewerWithin, LimitAssumption DEF KeysWithin
<1>3. QED
  BY <1>1, <1>2 DEF RoomsWithin

LEMMA LeaveLimits ==
  ASSUME TypeOK, TypeOK', LimitsHold, NEW c \in Clients, NEW r \in Rooms, Leave(c, r)
  PROVE  LimitsHold'
<1>0. RoomsWithin /\ KeysWithin /\ Counted
  BY LimitsAreParts
<1>1. /\ rooms'[r][c] = NoSocket
      /\ \A q \in Rooms, d \in Clients : q # r \/ d # c => rooms'[q][d] = rooms[q][d]
  BY DEF Leave, TypeOK
<1>2. liveRooms' \subseteq liveRooms
  BY DEF Leave, CleanupRooms
<1>3. RoomsWithin' /\ KeysWithin'
  <2>1. \A q \in Rooms, d \in Clients : rooms'[q][d] # NoSocket => rooms[q][d] # NoSocket
    BY <1>1
  <2>2. QED
    BY <1>0, <1>2, <2>1, ShrinkKeepsRooms
<1>4. Counted'
  <2>1. ASSUME NEW x
        PROVE  x \in Memberships' <=> x \in Memberships \ {<<c, r>>}
    <3>1. CASE x \in Clients \X Rooms
      <4>1. PICK d \in Clients, q \in Rooms : x = <<d, q>>
        BY <3>1
      <4>2. x \in Memberships' <=> rooms'[q][d] # NoSocket
        BY <4>1, MembershipsAfter
      <4>3. x \in Memberships <=> rooms[q][d] # NoSocket
        BY <4>1, MembershipsNow
      <4>4. x = <<c, r>> <=> d = c /\ q = r
        BY <4>1
      <4>5. QED
        BY <1>1, <4>2, <4>3, <4>4
    <3>2. CASE x \notin Clients \X Rooms
      BY <3>2, MembershipsAfter, MembershipsNow
    <3>3. QED
      BY <3>1, <3>2
  <2>2. Memberships' = Memberships \ {<<c, r>>}
    BY <2>1, Zenon
  <2>3. IsMember(c, r) <=> <<c, r>> \in Memberships
    BY MembershipsNow DEF IsMember
  <2>4. IsFiniteSet(Memberships) /\ Cardinality(Memberships) \in Nat
    BY MembersFinite
  <2>5. Cardinality(Memberships')
          = IF IsMember(c, r) THEN Cardinality(Memberships) - 1 ELSE Cardinality(Memberships)
    BY <2>2, <2>3, <2>4, FS_RemoveElement
  <2>6. /\ totalMembers' = IF IsMember(c, r) THEN totalMembers - 1 ELSE totalMembers
        /\ totalMembers \in Int
    BY DEF Leave, TypeOK
  <2>7. QED
    BY <1>0, <2>4, <2>5, <2>6 DEF Counted
<1>5. QED
  BY <1>3, <1>4, LimitsAreParts, PTL

LEMMA DisconnectLimits ==
  ASSUME TypeOK, TypeOK', IndexConsistent, LimitsHold, NEW c \in Clients, Disconnect(c)
  PROVE  LimitsHold'
<1>0. RoomsWithin /\ KeysWithin /\ Counted
  BY LimitsAreParts
<1>1. \A q \in Rooms : rooms[q][c] # NoSocket <=> q \in clientRooms[c]
  BY DEF IndexConsistent, IsMember
<1>2. /\ \A q \in Rooms : rooms'[q][c] = NoSocket
      /\ \A q \in Rooms, d \in Clients : d # c => rooms'[q][d] = rooms[q][d]
  BY <1>1 DEF Disconnect, TypeOK
<1>3. RoomsWithin' /\ KeysWithin'
  <2>1. \A q \in Rooms, d \in Clients : rooms'[q][d] # NoSocket => rooms[q][d] # NoSocket
    BY <1>2
  <2>2. liveRooms' \subseteq liveRooms
    BY DEF Disconnect, CleanupRooms
  <2>3. QED
    BY <1>0, <2>1, <2>2, ShrinkKeepsRooms
<1>4. Counted'
  <2> DEFINE R == {c} \X clientRooms[c]
             f == [q \in clientRooms[c] |-> <<c, q>>]
  <2>1. clientRooms[c] \in SUBSET Rooms
    BY DEF TypeOK
  <2>2. IsFiniteSet(clientRooms[c]) /\ Cardinality(clientRooms[c]) \in Nat
    BY <2>1, IdentifierAssumption, FS_Subset, FS_CardinalityType
  <2>3. f \in Bijection(clientRooms[c], R)
    BY DEF Bijection, Injection, Surjection, IsInjective
  <2>4. ExistsBijection(clientRooms[c], R)
    BY <2>3 DEF ExistsBijection
  <2>5. IsFiniteSet(R) /\ Cardinality(R) = Cardinality(clientRooms[c])
    BY <2>2, <2>4, FS_Bijection
  <2>6. ASSUME NEW x
        PROVE  /\ x \in Memberships <=> x \in Memberships' \cup R
               /\ ~(x \in Memberships' /\ x \in R)
    <3>1. CASE x \in Clients \X Rooms
      <4>1. PICK d \in Clients, q \in Rooms : x = <<d, q>>
        BY <3>1
      <4>2. x \in Memberships' <=> rooms'[q][d] # NoSocket
        BY <4>1, MembershipsAfter
      <4>3. x \in Memberships <=> rooms[q][d] # NoSocket
        BY <4>1, MembershipsNow
      <4>4. x \in R <=> d = c /\ q \in clientRooms[c]
        BY <4>1
      <4>5. QED
        BY <1>1, <1>2, <4>2, <4>3, <4>4
    <3>2. CASE x \notin Clients \X Rooms
      <4>1. x \notin R
        BY <2>1, <3>2
      <4>2. QED
        BY <3>2, <4>1, MembershipsAfter, MembershipsNow
    <3>3. QED
      BY <3>1, <3>2
  <2> HIDE DEF R
  <2>7. Memberships = Memberships' \cup R /\ Memberships' \cap R = {}
    BY <2>6, Zenon
  <2>8. /\ IsFiniteSet(Memberships') /\ Cardinality(Memberships') \in Nat
        /\ Cardinality(Memberships) \in Nat
    BY MembersFinite, <2>7, FS_Subset, FS_CardinalityType
  <2>9. Cardinality(Memberships)
          = Cardinality(Memberships') + Cardinality(R) - Cardinality(Memberships' \cap R)
    BY <2>5, <2>7, <2>8, FS_Union
  <2>10. Cardinality(Memberships' \cap R) = 0
    BY <2>7, FS_EmptySet
  <2>11. totalMembers' = totalMembers - Cardinality(clientRooms[c]) /\ totalMembers \in Int
    BY DEF Disconnect, TypeOK
  <2>12. QED
    BY <1>0, <2>2, <2>5, <2>8, <2>9, <2>10, <2>11 DEF Counted
<1>5. QED
  BY <1>3, <1>4, LimitsAreParts, PTL

LEMMA UpdateLimits ==
  ASSUME TypeOK, TypeOK', IndexConsistent, LimitsHold, NEW old \in Clients,
         NEW new \in Clients, UpdateClientId(old, new)
  PROVE  LimitsHold'
<1>0. RoomsWithin /\ KeysWithin /\ Counted
  BY LimitsAreParts
<1>1. \A q \in Rooms : rooms[q][old] # NoSocket <=> q \in clientRooms[old]
  BY DEF IndexConsistent, IsMember
<1>2. ASSUME NEW q \in Rooms
      PROVE  /\ rooms'[q][old] = NoSocket
             /\ rooms'[q][new] = IF rooms[q][old] # NoSocket THEN rooms[q][old] ELSE rooms[q][new]
             /\ \A d \in Clients : d # old /\ d # new => rooms'[q][d] = rooms[q][d]
  <2>1. rooms'[q] = IF rooms[q][old] # NoSocket
                    THEN [rooms[q] EXCEPT ![old] = NoSocket, ![new] = rooms[q][old]]
                    ELSE rooms[q]
    BY <1>1 DEF UpdateClientId, IsMember
  <2>2. old # new /\ rooms[q] \in [Clients -> Sockets \cup {NoSocket}]
    BY DEF UpdateClientId, TypeOK
  <2>3. QED
    BY <2>1, <2>2
<1>3. ASSUME NEW q \in Rooms PROVE RoomWithin(q)'
  <2> DEFINE f == [d \in Members(q) |-> IF d = old THEN new ELSE d]
  <2>1. f \in [Members(q) -> Members(q)']
    BY <1>2, MembersNow, MembersAfter
  <2>2. ASSUME NEW t \in Members(q)' PROVE \E s \in Members(q) : f[s] = t
    <3>1. t \in Clients /\ t # old /\ rooms'[q][t] # NoSocket
      BY <1>2, MembersAfter
    <3>2. CASE rooms[q][t] # NoSocket
      BY <3>1, <3>2, MembersNow
    <3>3. CASE rooms[q][t] = NoSocket
      <4>1. t = new /\ rooms[q][old] # NoSocket
        BY <1>2, <3>1, <3>3
      <4>2. QED
        BY <4>1, MembersNow
    <3>4. QED
      BY <3>2, <3>3
  <2> HIDE DEF f
  <2>3. Cardinality(Members(q)') <= Cardinality(Members(q)) /\ IsFiniteSet(Members(q)')
    BY <2>1, <2>2, MembersFinite, ReplaceBounds
  <2>4. Cardinality(Members(q)') \in Nat /\ Cardinality(Members(q)) \in Nat
    BY <2>3, FS_CardinalityType, MembersFinite
  <2>5. RoomWithin(q)
    BY <1>0 DEF RoomsWithin
  <2>6. QED
    BY <2>3, <2>4, <2>5, FewerWithin, LimitAssumption DEF RoomWithin
<1>4. Counted'
  <2> DEFINE f == [x \in Memberships |-> IF x[1] = old THEN <<new, x[2]>> ELSE x]
  <2>1. ASSUME NEW x \in Memberships PROVE f[x] \in Memberships'
    <3>1. PICK d \in Clients, q \in Rooms : x = <<d, q>> /\ rooms[q][d] # NoSocket
      BY MembershipsNow
    <3>2. CASE d = old
      <4>1. f[x] = <<new, q>>
        BY <3>1, <3>2
      <4>2. rooms'[q][new] # NoSocket
        BY <1>2, <3>1, <3>2
      <4>3. QED
        BY <4>1, <4>2, MembershipsAfter
    <3>3. CASE d # old
      <4>1. f[x] = <<d, q>>
        BY <3>1, <3>3
      <4>2. rooms'[q][d] # NoSocket
        BY <1>2, <3>1, <3>3
      <4>3. QED
        BY <4>1, <4>2, MembershipsAfter
    <3>4. QED
      BY <3>2, <3>3
  <2>2. f \in [Memberships -> Memberships']
    BY <2>1
  <2>3. ASSUME NEW t \in Memberships' PROVE \E s \in Memberships : f[s] = t
    <3>1. PICK d \in Clients, q \in Rooms : t = <<d, q>> /\ rooms'[q][d] # NoSocket
      BY MembershipsAfter
    <3>2. d # old
      BY <1>2, <3>1
    <3>3. CASE rooms[q][d] # NoSocket
      <4>1. t \in Memberships
        BY <3>1, <3>3, MembershipsNow
      <4>2. f[t] = t
        BY <3>1, <3>2, <4>1
      <4>3. QED
        BY <4>1, <4>2
    <3>4. CASE rooms[q][d] = NoSocket
      <4>1. d = new /\ rooms[q][old] # NoSocket
        BY <1>2, <3>1, <3>2, <3>4
      <4>2. <<old, q>> \in Memberships
        BY <4>1, MembershipsNow
      <4>3. f[<<old, q>>] = t
        BY <3>1, <4>1, <4>2
      <4>4. QED
        BY <4>2, <4>3
    <3>5. QED
      BY <3>3, <3>4
  <2> HIDE DEF f
  <2>4. Cardinality(Memberships') <= Cardinality(Memberships) /\ IsFiniteSet(Memberships')
    BY <2>2, <2>3, MembersFinite, ReplaceBounds
  <2>5. Cardinality(Memberships') \in Nat /\ Cardinality(Memberships) \in Nat
    BY <2>4, FS_CardinalityType, MembersFinite
  <2>6. totalMembers' = totalMembers /\ totalMembers \in Int
    BY DEF UpdateClientId, TypeOK
  <2>7. QED
    BY <1>0, <2>4, <2>5, <2>6 DEF Counted
<1>5. RoomsWithin'
  BY <1>3 DEF RoomsWithin
<1>6. KeysWithin'
  BY <1>0 DEF KeysWithin, UpdateClientId
<1>7. QED
  BY <1>4, <1>5, <1>6, LimitsAreParts, PTL

LEMMA LimitsNext ==
  TypeOK /\ TypeOK' /\ IndexConsistent /\ LimitsHold /\ [Next]_vars => LimitsHold'
<1> SUFFICES ASSUME TypeOK, TypeOK', IndexConsistent, LimitsHold, [Next]_vars
             PROVE  LimitsHold'
  OBVIOUS
<1>1. CASE UNCHANGED membership
  BY <1>1 DEF membership, LimitsHold, Members, Memberships, IsMember
<1>2. QED
  BY <1>1, JoinLimits, LeaveLimits, DisconnectLimits, UpdateLimits
     DEF Next, Broadcast, Ack, SocketCloses, Tick, vars

LEMMA LimitsInit == Init => LimitsHold
<1> SUFFICES ASSUME Init PROVE LimitsHold
  OBVIOUS
<1>1. (\A r \in Rooms : Members(r) = {}) /\ Memberships = {} /\ liveRooms = {}
  BY DEF Init, Members, Memberships, IsMember
<1>2. Cardinality({}) = 0
  BY FS_EmptySet
<1>3. ASSUME NEW limit \in Limit PROVE Within(0, limit)
  BY DEF Within, Limit
<1>4. totalMembers = 0
  BY DEF Init
<1>5. RoomsWithin /\ KeysWithin /\ Counted
  BY <1>1, <1>2, <1>3, <1>4, LimitAssumption
     DEF RoomsWithin, RoomWithin, KeysWithin, Counted
<1>6. QED
  BY <1>5, LimitsAreParts

\* Whatever the limits, the clients and the rooms, no order of joins, leaves,
\* refreshes and disconnects overfills a room or the manager, and totalMembers
\* never falls below the number of memberships.
THEOREM LimitsAlwaysHold == Spec => []LimitsHold
<1>1. QED
  BY LimitsInit, LimitsNext, TypeCorrect, IndexAlwaysConsistent, PTL DEF Spec


-------------------------------------------------------------------------------
(* Deduplication *)

\* The buffers still hold everything that was broadcast, and the cache has room
\* for every key among it.
Complete == \A r \in Rooms : Len(roomBuffers[r]) = roomSeq[r]
Fits == Cardinality(BufferedKeys) <= MaxDedupEntries

\* No entry is from the future.
NotLater ==
  \A r \in Rooms : \A i \in 1 .. Len(roomBuffers[r]) : roomBuffers[r][i].timestamp <= now

\* The cache is a Map: it holds a key once.
Distinct(s) == \A i, j \in 1 .. Len(s) : s[i].key = s[j].key => i = j

\* The cache remembers this entry's update at its time or a later one.
Remembers(s, r, e) ==
  e.payload \in Updates =>
    \E k \in 1 .. Len(s) : s[k].key = <<r, e.payload>> /\ s[k].at >= e.timestamp

OnlyBuffered == \A k \in 1 .. Len(dedupCache) : dedupCache[k].key \in BufferedKeys
AllRemembered ==
  \A r \in Rooms : \A i \in 1 .. Len(roomBuffers[r]) :
    Remembers(dedupCache, r, roomBuffers[r][i])
Apart ==
  \A r \in Rooms : \A i, j \in 1 .. Len(roomBuffers[r]) :
    SamePayload(r, i, j) =>
      roomBuffers[r][j].timestamp - roomBuffers[r][i].timestamp > DedupWindow

\* The inductive invariant: while the premise lasts nothing was evicted, so the
\* cache holds exactly the buffered keys, each with its latest time.
DedupInv ==
  /\ NotLater
  /\ Complete /\ Fits => Distinct(dedupCache) /\ OnlyBuffered /\ AllRemembered /\ Apart

\* What Map.set leaves of a cache of distinct keys.
IsSetOf(s, cache, key, t) ==
  /\ s \in Seq(DedupEntry)
  /\ Distinct(s)
  /\ \A k \in 1 .. Len(s) :
       s[k].key = key \/ \E j \in 1 .. Len(cache) : s[k].key = cache[j].key
  /\ \E k \in 1 .. Len(s) : s[k].key = key /\ s[k].at = t
  /\ \A j \in 1 .. Len(cache) : cache[j].key # key =>
       \E k \in 1 .. Len(s) : s[k] = cache[j]

LEMMA SetKeyFacts ==
  ASSUME NEW cache \in Seq(DedupEntry), Distinct(cache), NEW key \in Rooms \X Updates,
         NEW t \in Nat, NEW s, s = SetKey(cache, key, t)
  PROVE  IsSetOf(s, cache, key, t)
<1>0. Len(cache) \in Nat /\ \A j \in 1 .. Len(cache) : cache[j] \in DedupEntry
  BY LenProperties, ElementOfSeq
<1>1. CASE Places(cache, key) # {}
  <2>1. s = [i \in 1 .. Len(cache) |->
               IF cache[i].key = key THEN [cache[i] EXCEPT !.at = t] ELSE cache[i]]
    BY <1>1 DEF SetKey
  <2>2. ASSUME NEW i \in 1 .. Len(cache)
        PROVE  /\ s[i] \in DedupEntry
               /\ s[i].key = cache[i].key
               /\ cache[i].key = key => s[i].at = t
               /\ cache[i].key # key => s[i] = cache[i]
    <3>1. s[i] = IF cache[i].key = key THEN [cache[i] EXCEPT !.at = t] ELSE cache[i]
      BY <2>1
    <3>2. cache[i] \in DedupEntry
      BY <1>0
    <3>3. /\ [cache[i] EXCEPT !.at = t] \in DedupEntry
          /\ [cache[i] EXCEPT !.at = t].key = cache[i].key
          /\ [cache[i] EXCEPT !.at = t].at = t
      BY <3>2 DEF DedupEntry
    <3>4. QED
      BY <3>1, <3>2, <3>3
  <2>3. s \in Seq(DedupEntry) /\ Len(s) = Len(cache)
    <3>1. s \in [1 .. Len(cache) -> DedupEntry]
      BY <2>1, <2>2
    <3>2. QED
      BY <1>0, <3>1
  <2>4. PICK p \in 1 .. Len(cache) : cache[p].key = key
    BY <1>1 DEF Places
  <2>5. Distinct(s)
    BY <2>2, <2>3 DEF Distinct
  <2>6. \A k \in 1 .. Len(s) : \E j \in 1 .. Len(cache) : s[k].key = cache[j].key
    BY <2>2, <2>3
  <2>7. \E k \in 1 .. Len(s) : s[k].key = key /\ s[k].at = t
    BY <2>2, <2>3, <2>4
  <2>8. \A j \in 1 .. Len(cache) : cache[j].key # key =>
          \E k \in 1 .. Len(s) : s[k] = cache[j]
    BY <2>2, <2>3
  <2>9. QED
    BY <2>3, <2>5, <2>6, <2>7, <2>8 DEF IsSetOf
<1>2. CASE Places(cache, key) = {}
  <2> DEFINE e == [key |-> key, at |-> t]
  <2>1. e \in DedupEntry /\ e.key = key /\ e.at = t
    BY DEF DedupEntry
  <2>2. s = Append(cache, e)
    BY <1>2 DEF SetKey
  <2>3. \A j \in 1 .. Len(cache) : cache[j].key # key
    BY <1>2 DEF Places
  <2> HIDE DEF e
  <2>4. /\ s \in Seq(DedupEntry) /\ Len(s) = Len(cache) + 1
        /\ \A j \in 1 .. Len(cache) : s[j] = cache[j]
        /\ s[Len(cache) + 1] = e
    BY <2>1, <2>2
  <2>5. \A k \in 1 .. Len(s) : k \in 1 .. Len(cache) \/ k = Len(cache) + 1
    BY <1>0, <2>4
  <2>5a. \A k \in 1 .. Len(cache) : k \in 1 .. Len(s)
    BY <1>0, <2>4
  <2>5b. Len(cache) + 1 \in 1 .. Len(s)
    BY <1>0, <2>4
  <2>6. Distinct(s)
    BY <2>1, <2>3, <2>4, <2>5 DEF Distinct
  <2>7. \A k \in 1 .. Len(s) : s[k].key = key \/ \E j \in 1 .. Len(cache) : s[k].key = cache[j].key
    BY <2>1, <2>4, <2>5
  <2>8. \E k \in 1 .. Len(s) : s[k].key = key /\ s[k].at = t
    BY <2>1, <2>4, <2>5b
  <2>9. \A j \in 1 .. Len(cache) : cache[j].key # key =>
          \E k \in 1 .. Len(s) : s[k] = cache[j]
    BY <2>4, <2>5a
  <2>10. QED
    BY <2>4, <2>6, <2>7, <2>8, <2>9 DEF IsSetOf
<1>3. QED
  BY <1>1, <1>2

\* Finitely many keys are buffered.
LEMMA BufferedKeysFinite ==
  TypeOK => IsFiniteSet(BufferedKeys)
<1> SUFFICES ASSUME TypeOK PROVE IsFiniteSet(BufferedKeys)
  OBVIOUS
<1> DEFINE K(r) == {key \in BufferedKeys : key[1] = r}
           g == [r \in Rooms |-> K(r)]
           A == {K(r) : r \in Rooms}
<1>1. ASSUME NEW r \in Rooms PROVE IsFiniteSet(K(r))
  <2> DEFINE I == {i \in 1 .. Len(roomBuffers[r]) : roomBuffers[r][i].payload \in Updates}
             f == [i \in I |-> <<r, roomBuffers[r][i].payload>>]
  <2>1. roomBuffers[r] \in Seq(Entry) /\ Len(roomBuffers[r]) \in Nat
    BY LenProperties DEF TypeOK
  <2>2. IsFiniteSet(1 .. Len(roomBuffers[r]))
    BY <2>1, FS_Interval
  <2>3. IsFiniteSet(I)
    BY <2>2, FS_Subset
  <2>4. f \in [I -> K(r)]
    <3> SUFFICES ASSUME NEW i \in I PROVE <<r, roomBuffers[r][i].payload>> \in K(r)
      OBVIOUS
    <3>1. <<r, roomBuffers[r][i].payload>> \in BufferedKeys
      BY DEF BufferedKeys
    <3>2. QED
      BY <3>1
  <2>5. ASSUME NEW key \in K(r) PROVE \E i \in I : f[i] = key
    <3>1. PICK u \in Updates : key = <<r, u>>
      BY DEF BufferedKeys
    <3>2. PICK i \in 1 .. Len(roomBuffers[r]) : roomBuffers[r][i].payload = u
      BY <3>1 DEF BufferedKeys
    <3>3. i \in I /\ f[i] = key
      BY <3>1, <3>2
    <3>4. QED
      BY <3>3
  <2> HIDE DEF I, f, K
  <2>6. QED
    BY <2>3, <2>4, <2>5, ReplaceBounds
<1>2. g \in [Rooms -> A] /\ \A a \in A : \E r \in Rooms : g[r] = a
  BY Zenon
<1>3. \A a \in A : IsFiniteSet(a)
  BY <1>1
<1>4. UNION A = BufferedKeys
  <2>1. ASSUME NEW key \in BufferedKeys PROVE key \in UNION A
    <3>1. key[1] \in Rooms
      BY DEF BufferedKeys
    <3>2. QED
      BY <3>1
  <2>2. ASSUME NEW key \in UNION A PROVE key \in BufferedKeys
    OBVIOUS
  <2>3. QED
    BY <2>1, <2>2
<1> HIDE DEF g, A
<1>5. IsFiniteSet(A)
  BY <1>2, IdentifierAssumption, ReplaceBounds
<1>6. QED
  BY <1>3, <1>4, <1>5, FS_UNION

\* A broadcast that leaves the buffers complete evicted nothing and only
\* appended its entry.
LEMMA BroadcastAppends ==
  ASSUME TypeOK, BufferContiguous, NEW r \in Rooms, NEW m \in Updates \cup {Plain},
         NEW bytes \in Sizes, NEW exclude \in Clients \cup {NoClient},
         Broadcast(r, m, bytes, exclude), Complete'
  PROVE  /\ Complete
         /\ Len(roomBuffers[r]) \in Nat
         /\ Len(roomBuffers'[r]) = Len(roomBuffers[r]) + 1
         /\ \A i \in 1 .. Len(roomBuffers[r]) : roomBuffers'[r][i] = roomBuffers[r][i]
         /\ roomBuffers'[r][Len(roomBuffers[r]) + 1].payload = m
         /\ roomBuffers'[r][Len(roomBuffers[r]) + 1].timestamp = now
         /\ \A q \in Rooms : q # r => roomBuffers'[q] = roomBuffers[q]
<1> DEFINE entry == [seq |-> roomSeq[r] + 1, payload |-> m, bytes |-> bytes,
                     timestamp |-> now]
           old == roomBuffers[r]
           full == Append(old, entry)
           new == Evict(full)
<1>1. /\ roomSeq[r] \in Nat /\ old \in Seq(Entry) /\ now \in Nat /\ Len(old) \in Nat
      /\ Len(old) <= roomSeq[r]
  BY LenProperties DEF TypeOK, BufferContiguous
<1>2. entry \in Entry /\ entry.payload = m /\ entry.timestamp = now
  BY <1>1 DEF Entry
<1>3. roomBuffers'[r] = new /\ roomSeq'[r] = roomSeq[r] + 1
  BY DEF Broadcast, TypeOK
<1>4. \A q \in Rooms : q # r => roomBuffers'[q] = roomBuffers[q] /\ roomSeq'[q] = roomSeq[q]
  BY DEF Broadcast, TypeOK
<1> HIDE DEF entry
<1>5. /\ full \in Seq(Entry) /\ Len(full) = Len(old) + 1
      /\ \A i \in 1 .. Len(old) : full[i] = old[i]
      /\ full[Len(old) + 1] = entry
  BY <1>1, <1>2
<1> HIDE DEF full
<1>6. /\ new \in Seq(Entry) /\ Len(new) <= Len(full) /\ Len(new) \in Nat
      /\ \A i \in 1 .. Len(new) : new[i] = full[Len(full) - Len(new) + i]
  BY <1>5, EvictIsSuffix, LenProperties
<1>7. Len(new) = roomSeq[r] + 1
  BY <1>3 DEF Complete
<1> HIDE DEF new
<1>8. Len(old) = roomSeq[r] /\ Len(new) = Len(full)
  BY <1>1, <1>5, <1>6, <1>7
<1>9. ASSUME NEW i \in 1 .. Len(old) + 1 PROVE new[i] = full[i]
  <2>1. i \in 1 .. Len(new) /\ Len(full) - Len(new) + i = i
    BY <1>1, <1>5, <1>6, <1>8
  <2>2. QED
    BY <1>6, <2>1
<1>10. Complete
  BY <1>4, <1>8 DEF Complete
<1>11. ASSUME NEW i \in 1 .. Len(old) PROVE new[i] = old[i]
  <2>1. i \in 1 .. Len(old) + 1
    BY <1>1
  <2>2. QED
    BY <1>5, <1>9, <2>1
<1>12. Len(old) + 1 \in 1 .. Len(old) + 1
  BY <1>1
<1>13. new[Len(old) + 1] = entry
  BY <1>5, <1>9, <1>12
<1>14. QED
  BY <1>1, <1>2, <1>3, <1>4, <1>5, <1>8, <1>10, <1>11, <1>13

\* What is buffered after such a broadcast.
LEMMA BufferedAfter ==
  ASSUME NEW key \in Rooms \X Updates
  PROVE  key \in BufferedKeys' <=>
           \E i \in 1 .. Len(roomBuffers'[key[1]]) : roomBuffers'[key[1]][i].payload = key[2]
BY DEF BufferedKeys

LEMMA BufferedGrow ==
  ASSUME TypeOK, BufferContiguous, NEW r \in Rooms, NEW m \in Updates \cup {Plain},
         NEW bytes \in Sizes, NEW exclude \in Clients \cup {NoClient},
         Broadcast(r, m, bytes, exclude), Complete'
  PROVE  /\ BufferedKeys \subseteq BufferedKeys'
         /\ m \in Updates => <<r, m>> \in BufferedKeys'
<1> DEFINE n == Len(roomBuffers[r])
<1>1. /\ n \in Nat
      /\ Len(roomBuffers'[r]) = n + 1
      /\ \A i \in 1 .. n : roomBuffers'[r][i] = roomBuffers[r][i]
      /\ roomBuffers'[r][n + 1].payload = m
      /\ \A q \in Rooms : q # r => roomBuffers'[q] = roomBuffers[q]
  BY BroadcastAppends
<1>2. ASSUME NEW key \in BufferedKeys PROVE key \in BufferedKeys'
  <2>1. PICK q \in Rooms, u \in Updates : key = <<q, u>>
    BY DEF BufferedKeys
  <2>2. PICK i \in 1 .. Len(roomBuffers[q]) : roomBuffers[q][i].payload = u
    BY <2>1 DEF BufferedKeys
  <2>3. i \in 1 .. Len(roomBuffers'[q]) /\ roomBuffers'[q][i].payload = u
    BY <1>1, <2>2
  <2>4. QED
    BY <2>1, <2>3, BufferedAfter
<1>3. ASSUME m \in Updates PROVE <<r, m>> \in BufferedKeys'
  <2>1. n + 1 \in 1 .. Len(roomBuffers'[r])
    BY <1>1
  <2>2. QED
    BY <1>1, <1>3, <2>1, BufferedAfter
<1>4. QED
  BY <1>2, <1>3

\* A cache of distinct buffered keys is within its cap, so nothing is evicted.
LEMMA NothingEvicted ==
  ASSUME NEW s \in Seq(DedupEntry), Distinct(s), NEW K, IsFiniteSet(K),
         \A k \in 1 .. Len(s) : s[k].key \in K, Cardinality(K) <= MaxDedupEntries
  PROVE  EvictFirst(s, MaxDedupEntries) = s
<1> DEFINE f == [k \in 1 .. Len(s) |-> s[k].key]
<1>1. Len(s) \in Nat
  BY LenProperties
<1>2. f \in Injection(1 .. Len(s), K)
  BY DEF Injection, IsInjective, Distinct
<1>3. Cardinality(1 .. Len(s)) <= Cardinality(K)
  BY <1>2, FS_Injection
<1>4. Cardinality(1 .. Len(s)) = Len(s)
  <2>1. 1 \in Int /\ Len(s) \in Int
    BY <1>1
  <2>2. Cardinality(1 .. Len(s)) = IF 1 > Len(s) THEN 0 ELSE Len(s) - 1 + 1
    BY <2>1, FS_Interval, Zenon
  <2>3. QED
    BY <1>1, <2>2
<1>5. Cardinality(K) \in Nat
  BY FS_CardinalityType
<1>6. Len(s) <= MaxDedupEntries
  BY <1>1, <1>3, <1>4, <1>5, LimitAssumption
<1>7. QED
  BY <1>1, <1>6, LimitAssumption DEF EvictFirst

LEMMA BroadcastDedup ==
  ASSUME TypeOK, TypeOK', BufferContiguous, DedupInv, NEW r \in Rooms,
         NEW m \in Updates \cup {Plain}, NEW bytes \in Sizes,
         NEW exclude \in Clients \cup {NoClient}, Broadcast(r, m, bytes, exclude),
         Complete', Fits'
  PROVE  Distinct(dedupCache)' /\ OnlyBuffered' /\ AllRemembered' /\ Apart'
<1> DEFINE n == Len(roomBuffers[r])
           key == <<r, m>>
<1>1. /\ Complete
      /\ n \in Nat
      /\ Len(roomBuffers'[r]) = n + 1
      /\ \A i \in 1 .. n : roomBuffers'[r][i] = roomBuffers[r][i]
      /\ roomBuffers'[r][n + 1].payload = m
      /\ roomBuffers'[r][n + 1].timestamp = now
      /\ \A q \in Rooms : q # r => roomBuffers'[q] = roomBuffers[q]
  BY BroadcastAppends
<1>2. /\ BufferedKeys \subseteq BufferedKeys'
      /\ m \in Updates => key \in BufferedKeys'
  BY BufferedGrow
<1>3. IsFiniteSet(BufferedKeys) /\ IsFiniteSet(BufferedKeys)'
  BY BufferedKeysFinite, PTL
<1>4. Fits
  <2>1. BufferedKeys \in SUBSET BufferedKeys'
    BY <1>2
  <2>2. Cardinality(BufferedKeys) <= Cardinality(BufferedKeys')
    BY <1>3, <2>1, FS_Subset
  <2>3. Cardinality(BufferedKeys) \in Nat /\ Cardinality(BufferedKeys') \in Nat
    BY <1>3, FS_CardinalityType
  <2>4. Cardinality(BufferedKeys') <= MaxDedupEntries
    BY DEF Fits
  <2>5. QED
    BY <2>2, <2>3, <2>4, LimitAssumption DEF Fits
<1>5. Distinct(dedupCache) /\ OnlyBuffered /\ AllRemembered /\ Apart /\ NotLater
  BY <1>1, <1>4 DEF DedupInv
<1>6. /\ dedupCache \in Seq(DedupEntry) /\ now \in Nat
      /\ \A k \in 1 .. Len(dedupCache) : dedupCache[k].at \in Nat
      /\ \A q \in Rooms : \A i \in 1 .. Len(roomBuffers[q]) : roomBuffers[q][i].timestamp \in Nat
  <2>1. dedupCache \in Seq(DedupEntry) /\ now \in Nat
    BY DEF TypeOK
  <2>2. \A k \in 1 .. Len(dedupCache) : dedupCache[k] \in DedupEntry
    BY <2>1, ElementOfSeq
  <2>3. ASSUME NEW q \in Rooms, NEW i \in 1 .. Len(roomBuffers[q])
        PROVE  roomBuffers[q][i].timestamp \in Nat
    <3>1. roomBuffers[q] \in Seq(Entry)
      BY DEF TypeOK
    <3>2. roomBuffers[q][i] \in Entry
      BY <3>1, ElementOfSeq
    <3>3. QED
      BY <3>2 DEF Entry
  <2>4. QED
    BY <2>1, <2>2, <2>3 DEF DedupEntry
\* The entries of the buffers after the step, old and new.
<1>7. ASSUME NEW q \in Rooms, NEW i \in 1 .. Len(roomBuffers'[q])
      PROVE  \/ i \in 1 .. Len(roomBuffers[q]) /\ roomBuffers'[q][i] = roomBuffers[q][i]
             \/ q = r /\ i = n + 1
  BY <1>1
<1>8. CASE m \in Updates
  <2> DEFINE s == SetKey(dedupCache, key, now)
  <2>1. key \in Rooms \X Updates
    BY <1>8
  <2>3. dedupCache' = EvictFirst(s, MaxDedupEntries)
    BY <1>8 DEF Broadcast, Record
  <2>0. s = SetKey(dedupCache, key, now)
    OBVIOUS
  <2> HIDE DEF s, key
  <2>2a. IsSetOf(s, dedupCache, key, now)
    BY <1>5, <1>6, <2>0, <2>1, SetKeyFacts
  <2>2. /\ s \in Seq(DedupEntry)
        /\ Distinct(s)
        /\ \A k \in 1 .. Len(s) :
             s[k].key = key \/ \E j \in 1 .. Len(dedupCache) : s[k].key = dedupCache[j].key
        /\ \E k \in 1 .. Len(s) : s[k].key = key /\ s[k].at = now
        /\ \A j \in 1 .. Len(dedupCache) : dedupCache[j].key # key =>
             \E k \in 1 .. Len(s) : s[k] = dedupCache[j]
    BY <2>2a DEF IsSetOf
  <2>4. ~IsDuplicate(dedupCache, key, now, DedupWindow)
    BY <1>8 DEF Broadcast, key
  <2>5. \A k \in 1 .. Len(s) : s[k].key \in BufferedKeys'
    BY <1>2, <1>5, <1>8, <2>2 DEF OnlyBuffered
  <2>6. Cardinality(BufferedKeys') <= MaxDedupEntries
    BY DEF Fits
  <2>7. dedupCache' = s
    BY <1>3, <2>2, <2>3, <2>5, <2>6, NothingEvicted
  <2>8. Distinct(dedupCache)' /\ OnlyBuffered'
    BY <2>2, <2>5, <2>7 DEF Distinct, OnlyBuffered
  <2>9. ASSUME NEW q \in Rooms, NEW i \in 1 .. Len(roomBuffers'[q])
        PROVE  Remembers(s, q, roomBuffers'[q][i])
    <3> DEFINE e == roomBuffers'[q][i]
    <3>1. CASE q = r /\ i = n + 1
      <4>1. e.payload = m /\ e.timestamp = now
        BY <1>1, <3>1
      <4>2. now >= now
        BY <1>6
      <4>3. QED
        BY <2>2, <3>1, <4>1, <4>2 DEF Remembers, key
    <3>2. CASE i \in 1 .. Len(roomBuffers[q]) /\ e = roomBuffers[q][i]
      <4>1. Remembers(dedupCache, q, e) /\ e.timestamp <= now /\ e.timestamp \in Nat
        BY <1>5, <1>6, <3>2 DEF AllRemembered, NotLater
      <4>2. CASE e.payload \in Updates /\ <<q, e.payload>> # key
        <5>1. PICK j \in 1 .. Len(dedupCache) :
                dedupCache[j].key = <<q, e.payload>> /\ dedupCache[j].at >= e.timestamp
          BY <4>1, <4>2 DEF Remembers
        <5>2. \E k \in 1 .. Len(s) : s[k] = dedupCache[j]
          BY <2>2, <4>2, <5>1
        <5>3. QED
          BY <5>1, <5>2 DEF Remembers
      <4>3. CASE <<q, e.payload>> = key
        <5>1. PICK k \in 1 .. Len(s) : s[k].key = key /\ s[k].at = now
          BY <2>2
        <5>2. s[k].at >= e.timestamp
          BY <1>6, <4>1, <5>1
        <5>3. QED
          BY <4>3, <5>1, <5>2 DEF Remembers
      <4>4. CASE e.payload \notin Updates
        BY <4>4 DEF Remembers
      <4>5. QED
        BY <4>2, <4>3, <4>4
    <3>3. QED
      BY <1>7, <3>1, <3>2
  <2>10. AllRemembered'
    BY <2>7, <2>9 DEF AllRemembered, Remembers
  <2>11. ASSUME NEW q \in Rooms, NEW i \in 1 .. Len(roomBuffers'[q]),
                NEW j \in 1 .. Len(roomBuffers'[q]), SamePayload(q, i, j)'
         PROVE  roomBuffers'[q][j].timestamp - roomBuffers'[q][i].timestamp > DedupWindow
    <3>1. /\ i < j
          /\ roomBuffers'[q][i].payload \in Updates
          /\ roomBuffers'[q][i].payload = roomBuffers'[q][j].payload
      BY <2>11 DEF SamePayload
    <3>2. CASE q = r /\ j = n + 1
      <4>1. i \in 1 .. n /\ roomBuffers'[r][i] = roomBuffers[r][i]
        BY <1>1, <3>1, <3>2
      <4>2. roomBuffers[r][i].payload = m
        BY <1>1, <3>1, <3>2, <4>1
      <4>3. Remembers(dedupCache, r, roomBuffers[r][i])
        BY <1>5, <4>1 DEF AllRemembered
      <4>4. PICK k \in 1 .. Len(dedupCache) :
              dedupCache[k].key = key /\ dedupCache[k].at >= roomBuffers[r][i].timestamp
        BY <1>8, <4>2, <4>3 DEF Remembers, key
      <4>5. ~(now - dedupCache[k].at <= DedupWindow)
        BY <2>4, <4>4 DEF IsDuplicate, Places
      <4>6. dedupCache[k].at \in Nat /\ roomBuffers[r][i].timestamp \in Nat
        BY <1>6, <4>1, <4>4
      <4>7. now - roomBuffers[r][i].timestamp > DedupWindow
        <5>1. DedupWindow \in Nat
          BY LimitAssumption
        <5>2. QED
          BY <1>6, <4>4, <4>5, <4>6, <5>1
      <4>8. QED
        BY <1>1, <3>2, <4>1, <4>7
    <3>3. CASE j \in 1 .. Len(roomBuffers[q]) /\ roomBuffers'[q][j] = roomBuffers[q][j]
      <4>1. Len(roomBuffers[q]) \in Nat
        BY LenProperties DEF TypeOK
      <4>2. i \in 1 .. Len(roomBuffers[q]) /\ ~(q = r /\ i = n + 1)
        BY <1>1, <3>1, <3>3, <4>1
      <4>3. roomBuffers'[q][i] = roomBuffers[q][i]
        BY <1>7, <4>2
      <4>4. SamePayload(q, i, j)
        BY <3>1, <3>3, <4>3 DEF SamePayload
      <4>5. QED
        BY <1>5, <3>3, <4>2, <4>3, <4>4 DEF Apart
    <3>4. QED
      BY <1>7, <3>2, <3>3
  <2>12. QED
    BY <2>8, <2>10, <2>11 DEF Apart
<1>9. CASE m \notin Updates
  <2>1. dedupCache' = dedupCache
    BY <1>9 DEF Broadcast
  <2>2. Distinct(dedupCache)' /\ OnlyBuffered'
    BY <1>2, <1>5, <2>1 DEF Distinct, OnlyBuffered
  <2>3. ASSUME NEW q \in Rooms, NEW i \in 1 .. Len(roomBuffers'[q])
        PROVE  Remembers(dedupCache, q, roomBuffers'[q][i])
    <3>1. CASE q = r /\ i = n + 1
      BY <1>1, <1>9, <3>1 DEF Remembers
    <3>2. CASE i \in 1 .. Len(roomBuffers[q]) /\ roomBuffers'[q][i] = roomBuffers[q][i]
      BY <1>5, <3>2 DEF AllRemembered
    <3>3. QED
      BY <1>7, <3>1, <3>2
  <2>4. AllRemembered'
    BY <2>1, <2>3 DEF AllRemembered, Remembers
  <2>5. ASSUME NEW q \in Rooms, NEW i \in 1 .. Len(roomBuffers'[q]),
               NEW j \in 1 .. Len(roomBuffers'[q]), SamePayload(q, i, j)'
        PROVE  roomBuffers'[q][j].timestamp - roomBuffers'[q][i].timestamp > DedupWindow
    <3>1. /\ i < j
          /\ roomBuffers'[q][i].payload \in Updates
          /\ roomBuffers'[q][i].payload = roomBuffers'[q][j].payload
      BY <2>5 DEF SamePayload
    <3>2. ~(q = r /\ i = n + 1) /\ ~(q = r /\ j = n + 1)
      BY <1>1, <1>9, <3>1
    <3>3. /\ i \in 1 .. Len(roomBuffers[q]) /\ roomBuffers'[q][i] = roomBuffers[q][i]
          /\ j \in 1 .. Len(roomBuffers[q]) /\ roomBuffers'[q][j] = roomBuffers[q][j]
      BY <1>7, <3>2
    <3>4. SamePayload(q, i, j)
      BY <3>1, <3>3 DEF SamePayload
    <3>5. QED
      BY <1>5, <3>3, <3>4 DEF Apart
  <2>6. QED
    BY <2>2, <2>4, <2>5 DEF Apart
<1>10. QED
  BY <1>8, <1>9

\* No broadcast, and no tick, puts an entry in the future.
LEMMA NotLaterNext ==
  ASSUME TypeOK, TypeOK', NotLater, [Next]_vars PROVE NotLater'
<1> USE DEF membership, log, flow
<1>0. /\ now \in Nat
      /\ \A q \in Rooms : roomBuffers[q] \in Seq(Entry) /\ Len(roomBuffers[q]) \in Nat
  BY LenProperties DEF TypeOK
<1>1. ASSUME NEW r \in Rooms, NEW m \in Updates \cup {Plain}, NEW bytes \in Sizes,
             NEW exclude \in Clients \cup {NoClient}, Broadcast(r, m, bytes, exclude)
      PROVE  NotLater'
  <2> DEFINE entry == [seq |-> roomSeq[r] + 1, payload |-> m, bytes |-> bytes,
                       timestamp |-> now]
             old == roomBuffers[r]
             full == Append(old, entry)
             new == Evict(full)
  <2>1. entry \in Entry /\ entry.timestamp = now
    BY DEF Entry, TypeOK
  <2>2. /\ roomBuffers'[r] = new /\ now' = now
        /\ \A q \in Rooms : q # r => roomBuffers'[q] = roomBuffers[q]
    BY <1>1 DEF Broadcast, TypeOK
  <2> HIDE DEF entry
  <2>3. /\ full \in Seq(Entry) /\ Len(full) = Len(old) + 1
        /\ \A i \in 1 .. Len(old) : full[i] = old[i]
        /\ full[Len(old) + 1] = entry
    BY <1>0, <2>1
  <2>4. ASSUME NEW i \in 1 .. Len(full) PROVE full[i].timestamp <= now
    <3>1. CASE i \in 1 .. Len(old)
      BY <2>3, <3>1 DEF NotLater
    <3>2. CASE i = Len(old) + 1
      BY <1>0, <2>1, <2>3, <3>2
    <3>3. QED
      BY <1>0, <2>3, <3>1, <3>2
  <2> HIDE DEF full
  <2>5. /\ new \in Seq(Entry) /\ Len(new) <= Len(full) /\ Len(new) \in Nat
        /\ \A i \in 1 .. Len(new) : new[i] = full[Len(full) - Len(new) + i]
    BY <2>3, EvictIsSuffix, LenProperties
  <2> HIDE DEF new
  <2>6. ASSUME NEW i \in 1 .. Len(new) PROVE new[i].timestamp <= now
    <3>1. Len(full) - Len(new) + i \in 1 .. Len(full)
      BY <1>0, <2>3, <2>5
    <3>2. QED
      BY <2>4, <2>5, <3>1
  <2>7. QED
    BY <2>2, <2>6 DEF NotLater
<1>2. CASE UNCHANGED roomBuffers /\ now' >= now
  <2> SUFFICES ASSUME NEW q \in Rooms, NEW i \in 1 .. Len(roomBuffers[q])
               PROVE  roomBuffers[q][i].timestamp <= now'
    BY <1>2 DEF NotLater
  <2>1. roomBuffers[q][i] \in Entry /\ now' \in Nat
    BY <1>0, ElementOfSeq DEF TypeOK
  <2>2. QED
    BY <1>0, <1>2, <2>1 DEF NotLater, Entry
<1>3. now' = now => now' >= now
  BY <1>0
<1>4. Tick => UNCHANGED roomBuffers /\ now' >= now
  BY <1>0 DEF Tick
<1>5. QED
  BY <1>1, <1>2, <1>3, <1>4
     DEF Next, Join, Leave, Disconnect, UpdateClientId, Ack, SocketCloses, vars

LEMMA DedupNext ==
  TypeOK /\ TypeOK' /\ BufferContiguous /\ DedupInv /\ [Next]_vars => DedupInv'
<1> SUFFICES ASSUME TypeOK, TypeOK', BufferContiguous, DedupInv, [Next]_vars
             PROVE  DedupInv'
  OBVIOUS
<1>1. NotLater'
  BY NotLaterNext DEF DedupInv
<1>2. CASE UNCHANGED log
  <2>1. /\ Complete' <=> Complete
        /\ BufferedKeys' = BufferedKeys
    BY <1>2 DEF log, Complete, BufferedKeys
  <2>2. Fits' <=> Fits
    BY <2>1 DEF Fits
  <2>3. /\ Distinct(dedupCache)' <=> Distinct(dedupCache)
        /\ OnlyBuffered' <=> OnlyBuffered
        /\ AllRemembered' <=> AllRemembered
        /\ Apart' <=> Apart
    BY <1>2, <2>1
       DEF log, Distinct, OnlyBuffered, AllRemembered, Remembers, Apart, SamePayload
  <2>4. QED
    BY <1>1, <2>1, <2>2, <2>3 DEF DedupInv
<1>3. ASSUME NEW r \in Rooms, NEW m \in Updates \cup {Plain}, NEW bytes \in Sizes,
             NEW exclude \in Clients \cup {NoClient}, Broadcast(r, m, bytes, exclude)
      PROVE  DedupInv'
  BY <1>1, <1>3, BroadcastDedup DEF DedupInv
<1>4. QED
  BY <1>2, <1>3
     DEF Next, Join, Leave, Disconnect, UpdateClientId, Ack, SocketCloses, Tick, vars

LEMMA DedupInit == Init => DedupInv
<1> SUFFICES ASSUME Init PROVE DedupInv
  OBVIOUS
<1>1. dedupCache = <<>> /\ \A r \in Rooms : roomBuffers[r] = <<>>
  BY DEF Init
<1>2. Len(dedupCache) = 0 /\ \A r \in Rooms : Len(roomBuffers[r]) = 0
  BY <1>1, EmptySeq
<1>3. QED
  BY <1>2 DEF DedupInv, NotLater, Distinct, OnlyBuffered, AllRemembered, Apart

\* Whatever is interleaved, for every window and every cap of the cache: while
\* the cache has room for every key broadcast, no update is sequenced twice in
\* one room within the deduplication window.
THEOREM DuplicatesAlwaysDropped == Spec => []NoDuplicateInWindow
<1>1. DedupInv => NoDuplicateInWindow
  BY DEF DedupInv, NoDuplicateInWindow, Complete, Fits, Apart
<1>2. Init => BufferContiguous
  BY DEF Init, BufferContiguous
<1>3. QED
  BY <1>1, <1>2, DedupInit, DedupNext, BufferNext, TypeCorrect, PTL DEF Spec

===============================================================================

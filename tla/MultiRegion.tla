------------------------------ MODULE MultiRegion ------------------------------
(***************************************************************************)
(* The MultiRegionCoordinator of src/multi-region.js, one per region, and  *)
(* the transport between them.  Local operations change the region's own   *)
(* replicated data at once and hand an operation to the transport; the     *)
(* transport may delay, reorder, duplicate or lose it.  Anti-entropy pulls *)
(* a peer's snapshot; geofences and global config collect a quorum.        *)
(*                                                                         *)
(* Every method runs to its first await in one step.  The awaits are the   *)
(* sends of quorumReplicate and the two fetches of antiEntropy, so these   *)
(* continue in later steps.                                                *)
(***************************************************************************)
EXTENDS OrSet, LwwMap, LwwElementSet, RgaSequence, Integers

CONSTANTS
  Clients, Rooms, \* room membership and messages
  Residency,      \* room -> regions its residency zone allows
  SessionKeys,    \* keys written by saveSession
  ConfigKeys,     \* keys written by setGlobalConfig
  Fences,
  QuorumOverride, \* config.quorumSize, 0 when it is not set
  Deployments,    \* the deployments and workloads of the model
  Nobody,         \* no anti-entropy round in progress
  NoSnapshot      \* the snapshot of a round has not arrived

\* A deployment is its regions (naturals, ordered as the code orders region
\* ids), what surrounds the coordinators, what their callers do, and the bounds
\* of the model.  "anti_entropy": the timer is on; "merkle_roots": the transport
\* exposes fetchMerkleRoot; "probe_failures": it can fail; "health_checks":
\* somebody marks regions failed and healthy; "retractions": a peer sends
\* message_remove; "origins": callers of broadcast name the predecessor.
ASSUME DeploymentAssumption ==
  \A d \in Deployments :
    /\ d.regions \subseteq Nat /\ IsFiniteSet(d.regions) /\ Nobody \notin d.regions
    /\ d.surroundings \subseteq {"anti_entropy", "merkle_roots", "probe_failures",
                                 "health_checks", "retractions", "origins"}
    /\ d.callers \subseteq {"members", "messages", "sessions", "config", "geofences"}
    /\ d.maxOps \in Nat /\ d.maxWall \in Nat /\ d.maxCount \in Nat

ASSUME KeysAssumption ==
  SessionKeys \cap ConfigKeys = {} /\ QuorumOverride \in Nat

VARIABLES
  deployment,    \* the deployment, for good
  membership,    \* region -> room -> OR-set of clients
  sequence,      \* region -> room -> nodes of the message sequence
  sessions,      \* region -> key -> entry: sessions and global config
  geofences,     \* region -> element set
  vectorClock,   \* region -> vector clock
  hlc,           \* region -> hlcInstance
  wall,          \* region -> Date.now()
  failedRegions, \* region -> peers it excludes
  rounds,        \* region -> the anti-entropy pull in progress
  quorumWrites,  \* calls of quorumReplicate that await their sends
  ops,           \* every operation handed to the transport
  seen,          \* history: region -> operations its state accounts for
  decided        \* history: the outcomes quorumReplicate returned

data == <<membership, sequence, sessions, geofences>>
clocks == <<vectorClock, hlc, wall>>
vars == <<deployment, data, clocks, failedRegions, rounds, quorumWrites, ops, seen, decided>>

Regions == deployment.regions
Surroundings == deployment.surroundings
Callers == deployment.callers
MaxOps == deployment.maxOps
MaxWall == deployment.maxWall
MaxCount == deployment.maxCount

Keys == SessionKeys \cup ConfigKeys
ZeroClock == [r \in Regions |-> 0]
ZeroReading == [l |-> 0, c |-> 0]

Init ==
  /\ deployment \in Deployments
  /\ membership = [r \in Regions |-> [q \in Rooms |-> EmptyOrSet]]
  /\ sequence = [r \in Regions |-> [q \in Rooms |-> {}]]
  /\ sessions = [r \in Regions |-> [k \in Keys |-> NoEntry]]
  /\ geofences = [r \in Regions |-> EmptyElementSet(Fences)]
  /\ vectorClock = [r \in Regions |-> ZeroClock]
  /\ hlc = [r \in Regions |-> ZeroReading]
  /\ wall = [r \in Regions |-> 0]
  /\ failedRegions = [r \in Regions |-> {}]
  /\ rounds = [r \in Regions |-> Nobody]
  /\ quorumWrites = {}
  /\ ops = {}
  /\ seen = [r \in Regions |-> {}]
  /\ decided = {}

-------------------------------------------------------------------------------
(* Operations handed to the transport *)

OpsOf(r) == {o \in ops : o.id[1] = r}

\* The identity of r's next operation; also the unique tag of a join.
NextId(r) == <<r, Cardinality(OpsOf(r)) + 1>>

\* ++localSeq: the region's messages are numbered on their own.
NextLocalSeq(r) == Cardinality({o \in OpsOf(r) : o.type = "message_append"}) + 1

\* The peers replicate() sends to: healthy and permitted by residency.
Targets(r, allowed) == (Regions \ {r}) \cap (allowed \ failedRegions[r])

\* replicate(): the operation, with the sender's clock as it is now.  `past` is
\* history: what the sender had seen.
Operation(r, type, payload, clock, allowed) ==
  [id |-> NextId(r), type |-> type, payload |-> payload, regionId |-> r,
   vectorClock |-> clock, targets |-> Targets(r, allowed),
   past |-> {o.id : o \in seen[r]}]

Issue(r, o) ==
  /\ Cardinality(ops) < MaxOps
  /\ ops' = ops \cup {o}
  /\ seen' = [seen EXCEPT ![r] = @ \cup {o}]

\* joinRoom(): the clocks are not touched.
JoinRoom(r, c, q) ==
  LET o == Operation(r, "membership_add", [room |-> q, client |-> c, tag |-> NextId(r)],
                     vectorClock[r], Residency[q])
  IN
  /\ "members" \in Callers
  /\ Issue(r, o)
  /\ membership' = [membership EXCEPT ![r][q] = OrAdd(@, c, NextId(r))]
  /\ UNCHANGED <<deployment, sequence, sessions, geofences, clocks, failedRegions, rounds,
                 quorumWrites, decided>>

\* leaveRoom(): only a client with recorded tags is replicated.
LeaveRoom(r, c, q) ==
  LET tags == TagsOf(membership[r][q], c)
      o == Operation(r, "membership_remove", [room |-> q, client |-> c, tags |-> tags],
                     vectorClock[r], Residency[q])
  IN
  /\ "members" \in Callers
  /\ tags # {}
  /\ Issue(r, o)
  /\ membership' = [membership EXCEPT ![r][q] = OrRemove(@, c)]
  /\ UNCHANGED <<deployment, sequence, sessions, geofences, clocks, failedRegions, rounds,
                 quorumWrites, decided>>

\* The predecessors a caller of broadcast may get: the last visible message by
\* default, or one it names.
Origins(r, q) ==
  {LastVisible(sequence[r][q])} \cup
  (IF "origins" \in Surroundings
   THEN {HeadId} \cup {n.id : n \in sequence[r][q]} ELSE {})

\* broadcast(): stamp, number, append, bump, replicate.  `after` is history:
\* the messages the publisher saw before the one it appends at the end.
Broadcast(r, q, left) ==
  LET stamp == HlcNow(hlc[r], wall[r])
      clock == VcIncrement(vectorClock[r], r)
      id == [hlc |-> stamp, region |-> r, localSeq |-> NextLocalSeq(r)]
      shown == ToArray(sequence[r][q])
      o == Operation(r, "message_append",
             [room |-> q, message |-> id, originLeft |-> left, hlc |-> stamp,
              after |-> IF left = LastVisible(sequence[r][q])
                        THEN {shown[i] : i \in 1 .. Len(shown)} ELSE {}],
             clock, Residency[q])
  IN
  /\ "messages" \in Callers
  /\ left \in Origins(r, q)
  /\ Issue(r, o)
  /\ hlc' = [hlc EXCEPT ![r] = stamp]
  /\ vectorClock' = [vectorClock EXCEPT ![r] = clock]
  /\ sequence' = [sequence EXCEPT ![r][q] = RgaInsert(@, id, left)]
  /\ UNCHANGED <<deployment, membership, sessions, geofences, wall, failedRegions, rounds,
                 quorumWrites, decided>>

\* saveSession(): bump, write, replicate everywhere.
SaveSession(r, k) ==
  LET clock == VcIncrement(vectorClock[r], r)
  IN
  /\ "sessions" \in Callers
  /\ Issue(r, Operation(r, "session_update", [key |-> k], clock, Regions))
  /\ vectorClock' = [vectorClock EXCEPT ![r] = clock]
  /\ sessions' = [sessions EXCEPT ![r][k] = Winner(@, [clock |-> clock, writer |-> r])]
  /\ UNCHANGED <<deployment, membership, sequence, geofences, hlc, wall, failedRegions, rounds,
                 quorumWrites, decided>>

-------------------------------------------------------------------------------
(* Quorum writes *)

\* Faulty variant: half of the regions, rounded down.
QuorumSizeHalf == Cardinality(Regions) \div 2

\* quorumSize(): the override or a majority of this region and its peers.
QuorumSize ==
  IF QuorumOverride > 0 THEN QuorumOverride ELSE Cardinality(Regions) \div 2 + 1

\* quorumReplicate() up to its await: the sends are under way, self has acked.
StartQuorum(r, o) ==
  /\ Issue(r, o)
  /\ quorumWrites' = quorumWrites \cup {[op |-> o, waiting |-> o.targets, acks |-> 1]}
  /\ UNCHANGED decided

\* syncGeofence() and removeGeofence(): stamp, apply locally, bump, quorum.
EditGeofence(r, f, type) ==
  LET reading == HlcNow(hlc[r], wall[r])
      stamp == [hlc |-> reading, regionId |-> r]
      clock == VcIncrement(vectorClock[r], r)
  IN
  /\ "geofences" \in Callers
  /\ StartQuorum(r, Operation(r, type, [fence |-> f, stamp |-> stamp, hlc |-> reading],
                              clock, Regions))
  /\ hlc' = [hlc EXCEPT ![r] = reading]
  /\ vectorClock' = [vectorClock EXCEPT ![r] = clock]
  /\ geofences' = [geofences EXCEPT ![r] =
       IF type = "geofence_upsert" THEN ElementAdd(@, f, stamp) ELSE ElementRemove(@, f, stamp)]
  /\ UNCHANGED <<deployment, membership, sequence, sessions, wall, failedRegions, rounds>>

SyncGeofence(r, f) == EditGeofence(r, f, "geofence_upsert")
RemoveGeofence(r, f) == EditGeofence(r, f, "geofence_remove")

\* setGlobalConfig(): an entry of the session map, written by quorum.
SetGlobalConfig(r, k) ==
  LET clock == VcIncrement(vectorClock[r], r)
  IN
  /\ "config" \in Callers
  /\ StartQuorum(r, Operation(r, "global_config", [key |-> k], clock, Regions))
  /\ vectorClock' = [vectorClock EXCEPT ![r] = clock]
  /\ sessions' = [sessions EXCEPT ![r][k] = Winner(@, [clock |-> clock, writer |-> r])]
  /\ UNCHANGED <<deployment, membership, sequence, geofences, hlc, wall, failedRegions, rounds>>

\* One send of quorumReplicate settles: acknowledged, which the peer does only
\* after applying the operation, or refused, failed or timed out.
Settle(w, p, ack) ==
  /\ p \in w.waiting
  /\ ack => w.op \in seen[p]
  /\ quorumWrites' = (quorumWrites \ {w}) \cup
       {[w EXCEPT !.waiting = @ \ {p}, !.acks = IF ack THEN @ + 1 ELSE @]}
  /\ UNCHANGED <<deployment, data, clocks, failedRegions, rounds, ops, seen, decided>>

\* quorumReplicate() after its await.
Decide(w) ==
  /\ w.waiting = {}
  /\ quorumWrites' = quorumWrites \ {w}
  /\ decided' = decided \cup {[op |-> w.op, committed |-> w.acks >= QuorumSize]}
  /\ UNCHANGED <<deployment, data, clocks, failedRegions, rounds, ops, seen>>

-------------------------------------------------------------------------------
(* handlePeerOperation() *)

\* A peer retracts a message: nothing in the repository sends message_remove,
\* but the operation is part of the wire format and is handled.
Retract(r, q, id) ==
  /\ "retractions" \in Surroundings
  /\ \E n \in sequence[r][q] : n.id = id /\ ~n.tombstoned
  /\ Issue(r, Operation(r, "message_remove", [room |-> q, message |-> id],
                        vectorClock[r], Residency[q]))
  /\ sequence' = [sequence EXCEPT ![r][q] = RgaRemove(@, id)]
  /\ UNCHANGED <<deployment, membership, sessions, geofences, clocks, failedRegions, rounds,
                 quorumWrites, decided>>

AppliedMembership(p, o) ==
  CASE o.type = "membership_add" ->
         [membership EXCEPT ![p][o.payload.room] = OrAdd(@, o.payload.client, o.payload.tag)]
    [] o.type = "membership_remove" ->
         [membership EXCEPT ![p][o.payload.room] = OrApplyRemove(@, o.payload.tags)]
    [] OTHER -> membership

AppliedSequence(p, o) ==
  CASE o.type = "message_append" ->
         [sequence EXCEPT ![p][o.payload.room] =
            RgaInsert(@, o.payload.message, o.payload.originLeft)]
    [] o.type = "message_remove" ->
         [sequence EXCEPT ![p][o.payload.room] = RgaRemove(@, o.payload.message)]
    [] OTHER -> sequence

AppliedSessions(p, o) ==
  IF o.type \in {"session_update", "global_config"}
  THEN [sessions EXCEPT ![p][o.payload.key] =
          Winner(@, [clock |-> o.vectorClock, writer |-> o.regionId])]
  ELSE sessions

AppliedGeofences(p, o) ==
  CASE o.type = "geofence_upsert" ->
         [geofences EXCEPT ![p] = ElementAdd(@, o.payload.fence, o.payload.stamp)]
    [] o.type = "geofence_remove" ->
         [geofences EXCEPT ![p] = ElementRemove(@, o.payload.fence, o.payload.stamp)]
    [] OTHER -> geofences

\* Messages and geofence edits carry the reading of their event.
CarriesHlc(o) == o.type \in {"message_append", "geofence_upsert", "geofence_remove"}

\* The transport delivers an operation: early or late, once or again.
HandlePeerOperation(p, o) ==
  /\ p \in o.targets
  /\ hlc' = [hlc EXCEPT ![p] = IF CarriesHlc(o) THEN HlcReceive(@, o.payload.hlc, wall[p])
                               ELSE @]
  /\ hlc'[p].c <= MaxCount
  /\ vectorClock' = [vectorClock EXCEPT ![p] = VcMerge(@, o.vectorClock)]
  /\ membership' = AppliedMembership(p, o)
  /\ sequence' = AppliedSequence(p, o)
  /\ sessions' = AppliedSessions(p, o)
  /\ geofences' = AppliedGeofences(p, o)
  /\ seen' = [seen EXCEPT ![p] = @ \cup {o}]
  /\ UNCHANGED <<deployment, wall, failedRegions, rounds, quorumWrites, ops, decided>>

-------------------------------------------------------------------------------
(* Anti-entropy and region health *)

SameRooms(r, p) == membership[r] = membership[p] /\ sequence[r] = sequence[p]

\* The hash covers tag and node lists in insertion order, so equal room states
\* may still have different roots once a list has two members.
OrderSensitive(r) ==
  \E q \in Rooms :
    \/ Cardinality(sequence[r][q]) > 1
    \/ Cardinality(membership[r][q].removes) > 1
    \/ \E c \in Clients : Cardinality(TagsOf(membership[r][q], c)) > 1

\* Faulty variant: the root leaves out the message sequences.
MayDivergeMembersOnly(r, p) ==
  "merkle_roots" \in Surroundings => membership[r] # membership[p]

\* antiEntropy() finds that p's root differs from its own (or p shows none).
MayDiverge(r, p) ==
  "merkle_roots" \in Surroundings => (~SameRooms(r, p) \/ OrderSensitive(r))

\* The round reaches peer p and decides to pull.  A root that agrees changes
\* nothing.
Probe(r, p) ==
  /\ "anti_entropy" \in Surroundings
  /\ rounds[r] = Nobody
  /\ p # r /\ p \notin failedRegions[r]
  /\ MayDiverge(r, p)
  /\ rounds' = [rounds EXCEPT ![r] = [peer |-> p, snap |-> NoSnapshot]]
  /\ UNCHANGED <<deployment, data, clocks, failedRegions, quorumWrites, ops, seen, decided>>

\* fetchMerkleRoot throws: the peer is marked failed.
ProbeFails(r, p) ==
  /\ {"anti_entropy", "merkle_roots", "probe_failures"} \subseteq Surroundings
  /\ rounds[r] = Nobody
  /\ p # r /\ p \notin failedRegions[r]
  /\ failedRegions' = [failedRegions EXCEPT ![r] = @ \cup {p}]
  /\ UNCHANGED <<deployment, data, clocks, rounds, quorumWrites, ops, seen, decided>>

\* serializeState(), with what it accounts for.
Snapshot(p) ==
  [membership |-> membership[p], sequence |-> sequence[p], sessions |-> sessions[p],
   geofences |-> geofences[p], vectorClock |-> vectorClock[p], seen |-> seen[p]]

\* The peer answers fetchState with its state.
FetchState(r) ==
  /\ rounds[r] # Nobody
  /\ rounds[r].snap = NoSnapshot
  /\ rounds' = [rounds EXCEPT ![r].snap = Snapshot(rounds[r].peer)]
  /\ UNCHANGED <<deployment, data, clocks, failedRegions, quorumWrites, ops, seen, decided>>

\* fetchState throws or its answer is lost: logged, the round goes on.
FetchFails(r) ==
  /\ rounds[r] # Nobody
  /\ rounds' = [rounds EXCEPT ![r] = Nobody]
  /\ UNCHANGED <<deployment, data, clocks, failedRegions, quorumWrites, ops, seen, decided>>

\* mergeRemoteState(): everything but the hybrid clock.
MergeRemoteState(r) ==
  LET snap == rounds[r].snap
  IN
  /\ rounds[r] # Nobody
  /\ snap # NoSnapshot
  /\ membership' = [membership EXCEPT ![r] =
       [q \in Rooms |-> OrMerge(@[q], snap.membership[q])]]
  /\ sequence' = [sequence EXCEPT ![r] = [q \in Rooms |-> RgaMerge(@[q], snap.sequence[q])]]
  /\ sessions' = [sessions EXCEPT ![r] = LwwMerge(@, snap.sessions)]
  /\ geofences' = [geofences EXCEPT ![r] = ElementMerge(@, snap.geofences)]
  /\ vectorClock' = [vectorClock EXCEPT ![r] = VcMerge(@, snap.vectorClock)]
  /\ seen' = [seen EXCEPT ![r] = @ \cup snap.seen]
  /\ rounds' = [rounds EXCEPT ![r] = Nobody]
  /\ UNCHANGED <<deployment, hlc, wall, failedRegions, quorumWrites, ops, decided>>

MarkRegionFailed(r, p) ==
  /\ "health_checks" \in Surroundings
  /\ p # r
  /\ failedRegions' = [failedRegions EXCEPT ![r] = @ \cup {p}]
  /\ UNCHANGED <<deployment, data, clocks, rounds, quorumWrites, ops, seen, decided>>

MarkRegionHealthy(r, p) ==
  /\ "health_checks" \in Surroundings
  /\ failedRegions' = [failedRegions EXCEPT ![r] = @ \ {p}]
  /\ UNCHANGED <<deployment, data, clocks, rounds, quorumWrites, ops, seen, decided>>

\* Each region's Date.now(), which the regions do not share.
Tick(r) ==
  /\ wall[r] < MaxWall
  /\ wall' = [wall EXCEPT ![r] = @ + 1]
  /\ UNCHANGED <<deployment, data, vectorClock, hlc, failedRegions, rounds, quorumWrites, ops, seen, decided>>

-------------------------------------------------------------------------------

Next ==
  \/ \E r \in Regions, c \in Clients, q \in Rooms : JoinRoom(r, c, q) \/ LeaveRoom(r, c, q)
  \/ \E r \in Regions, q \in Rooms : \E left \in Origins(r, q) : Broadcast(r, q, left)
  \/ \E r \in Regions, q \in Rooms : \E n \in sequence[r][q] : Retract(r, q, n.id)
  \/ \E r \in Regions, k \in SessionKeys : SaveSession(r, k)
  \/ \E r \in Regions, k \in ConfigKeys : SetGlobalConfig(r, k)
  \/ \E r \in Regions, f \in Fences : SyncGeofence(r, f) \/ RemoveGeofence(r, f)
  \/ \E w \in quorumWrites, p \in Regions, ack \in BOOLEAN : Settle(w, p, ack)
  \/ \E w \in quorumWrites : Decide(w)
  \/ \E p \in Regions, o \in ops : HandlePeerOperation(p, o)
  \/ \E r, p \in Regions : Probe(r, p) \/ ProbeFails(r, p)
  \/ \E r \in Regions : FetchState(r) \/ FetchFails(r) \/ MergeRemoteState(r)
  \/ \E r, p \in Regions : MarkRegionFailed(r, p) \/ MarkRegionHealthy(r, p)
  \/ \E r \in Regions : Tick(r)

Spec == Init /\ [][Next]_vars

\* Rooms with both parts, whose Merkle roots the regions compare.
ComparesRooms(d) == "merkle_roots" \in d.surroundings /\ "messages" \in d.callers

\* The anti-entropy timer visits every peer again and again, the transport
\* answers some fetch, and an answer that arrived is merged.  Operations may
\* still all be lost.
Fairness ==
  LET pullers == UNION {d.regions : d \in {e \in Deployments : ComparesRooms(e)}}
  IN  \A r \in pullers :
        /\ \A p \in pullers \ {r} : SF_vars({r, p} \subseteq Regions /\ Probe(r, p))
        /\ SF_vars(r \in Regions /\ FetchState(r))
        /\ SF_vars(r \in Regions /\ MergeRemoteState(r))

FairSpec == Spec /\ Fairness

-------------------------------------------------------------------------------
(* Properties *)

\* Strong convergence of the rooms: regions whose states account for the same
\* operations hold the same members and messages, in whatever order, how often
\* and by whatever route (operation or snapshot) they arrived.  (A retraction
\* that overtakes its message is ignored, so the claim is for rooms without.)
RoomsConverge ==
  (\A o \in ops : o.type # "message_remove") =>
    \A r, p \in Regions : seen[r] = seen[p] => SameRooms(r, p)

\* The joins of c in q a region knows, and the leaves that could end them.
JoinsSeen(r, c, q) ==
  {o \in seen[r] : o.type = "membership_add" /\ o.payload.room = q /\ o.payload.client = c}
LeavesSeen(r, c, q) ==
  {o \in seen[r] : o.type = "membership_remove" /\ o.payload.room = q /\ o.payload.client = c}

\* "A stale leave can never evict a fresh join": where a join is known and every
\* known leave was issued without knowledge of it, the client is a member; and
\* where every known join was known to some known leave, it is not.
FreshJoinWins ==
  \A r \in Regions, c \in Clients, q \in Rooms :
    OrHas(membership[r][q], c) <=>
      \E j \in JoinsSeen(r, c, q) : \A o \in LeavesSeen(r, c, q) : j.id \notin o.past

\* Strong convergence of the geofences: the same for last-update-wins edits.
GeofencesConverge ==
  \A r, p \in Regions : seen[r] = seen[p] => geofences[r] = geofences[p]

\* Strong convergence of what the regions serve to their clients.
ReplicasConverge == RoomsConverge /\ GeofencesConverge

\* The order a region shows is the one the tree of origins defines: every
\* message whose origins have all arrived, and no other, at its place.
TraversalMatchesReference ==
  \A r \in Regions, q \in Rooms :
    LET nodes == sequence[r][q]
        shown == ToArray(nodes)
    IN  /\ {shown[i] : i \in 1 .. Len(shown)} =
             {n.id : n \in {m \in nodes : Rooted(nodes, m.id) /\ ~m.tombstoned}}
        /\ \A i, j \in 1 .. Len(shown) :
             i < j <=> ReferenceBefore(nodes, shown[i], shown[j])

\* No two regions ever show two messages in opposite orders, however
\* incomplete their views are.
OrdersAgree ==
  \A r, p \in Regions, q \in Rooms :
    LET mine == ToArray(sequence[r][q])
        theirs == ToArray(sequence[p][q])
    IN  \A i, j \in 1 .. Len(mine), k, l \in 1 .. Len(theirs) :
          i < j /\ k < l => ~(mine[i] = theirs[l] /\ mine[j] = theirs[k])

\* A message appended at the end stands after everything its publisher saw, in
\* every region that shows both: the sequence respects causality even where
\* the hybrid clock does not.
AppendedAfterSeen ==
  \A r \in Regions, q \in Rooms :
    LET shown == ToArray(sequence[r][q])
    IN  \A o \in {x \in ops : x.type = "message_append"} :
          \A i, j \in 1 .. Len(shown) :
            shown[i] = o.payload.message /\ shown[j] \in o.payload.after => j < i

\* A write reported committed is held by a majority of the regions.
CommittedOnMajority ==
  QuorumOverride = 0 =>
    \A d \in decided : d.committed =>
      2 * Cardinality({p \in Regions : d.op \in seen[p]}) > Cardinality(Regions)

\* Anti-entropy alone, with every operation lost, brings together the rooms of
\* any two regions that go on pulling from each other.  (One failed probe makes a
\* region exclude the peer, and nothing in the code ever restores it.)
RoomsRepaired ==
  ComparesRooms(deployment) =>
    <>[](\A r, p \in Regions :
           r \notin failedRegions[p] /\ p \notin failedRegions[r] => SameRooms(r, p))

-------------------------------------------------------------------------------
(* What the repository's documents say and the code does not do *)

\* issues/issue-24: "same operations delivered in any order" give the same state.
SessionsConverge ==
  \A r, p \in Regions : seen[r] = seen[p] => sessions[r] = sessions[p]
===============================================================================

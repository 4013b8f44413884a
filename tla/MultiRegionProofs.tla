--------------------------- MODULE MultiRegionProofs ---------------------------
(***************************************************************************)
(* Proofs about MultiRegion, for any regions, rooms, fences and bounds.    *)
(*                                                                         *)
(* The argument is the same for every replicated type: what a region holds *)
(* is a function of the operations its state accounts for (`seen`), and so *)
(* is every snapshot under way.  Order, repetition and route are then      *)
(* irrelevant by construction of the invariant.                            *)
(*                                                                         *)
(* The order of messages is the order of the tree they form: each region   *)
(* holds a part of the tree of all messages and orders it in the same way. *)
(***************************************************************************)
EXTENDS MultiRegion, FiniteSetTheorems, SequenceTheorems, WellFoundedInduction, TLAPS

-------------------------------------------------------------------------------
(* Bookkeeping: operations, what accounts for them, and pulls *)

\* Region r's anti-entropy round holds a snapshot.
Pulled(r) == rounds[r] # Nobody /\ rounds[r].snap # NoSnapshot

\* A round names a peer and a slot for its snapshot.
RoundOk(r) ==
  rounds[r] # Nobody =>
    /\ rounds[r] = [peer |-> rounds[r].peer, snap |-> rounds[r].snap]
    /\ rounds[r].peer \in Regions

\* Nothing accounts for an operation nobody issued.
Accounted ==
  /\ deployment \in Deployments
  /\ IsFiniteSet(ops)
  /\ seen \in [Regions -> SUBSET ops]
  /\ rounds = [r \in Regions |-> rounds[r]]
  /\ \A r \in Regions : RoundOk(r)
  /\ \A r \in Regions : Pulled(r) => rounds[r].snap.seen \subseteq ops

LEMMA RegionsFinite ==
  ASSUME Accounted
  PROVE  IsFiniteSet(Regions) /\ Regions \subseteq Nat
BY DeploymentAssumption DEF Accounted, Regions

\* Operations that start by issuing one of their own.
LEMMA Issuing ==
  ASSUME NEW r \in Regions, NEW o, Accounted, Issue(r, o)
  PROVE  /\ ops' = ops \cup {o}
         /\ seen' = [seen EXCEPT ![r] = @ \cup {o}]
         /\ IsFiniteSet(ops')
         /\ seen' \in [Regions -> SUBSET ops']
         /\ \A p \in Regions : seen[p] \subseteq seen'[p]
         /\ seen'[r] = seen[r] \cup {o}
<1>1. ops' = ops \cup {o} /\ seen' = [seen EXCEPT ![r] = @ \cup {o}]
  BY DEF Issue
<1>2. IsFiniteSet(ops')
  BY <1>1, FS_AddElement DEF Accounted
<1>3. QED
  BY <1>1, <1>2 DEF Accounted

LEMMA AccountedInit == Init => Accounted
BY FS_EmptySet DEF Init, Accounted, RoundOk, Pulled, Regions

\* A step in which region r issues operation o and its round is left alone.
IssuesOnly(r, o) == Issue(r, o) /\ UNCHANGED <<deployment, rounds>>

\* The same, with what the operation says.
IssuesOf(r, type, payload) ==
  \E o : /\ IssuesOnly(r, o)
         /\ o.id = NextId(r) /\ o.type = type /\ o.payload = payload
         /\ o.past = {x.id : x \in seen[r]}

JoinPayload(r, c, q) == [room |-> q, client |-> c, tag |-> NextId(r)]
LeavePayload(r, c, q) == [room |-> q, client |-> c, tags |-> TagsOf(membership[r][q], c)]
EditPayload(r, f) ==
  [fence |-> f, stamp |-> [hlc |-> HlcNow(hlc[r], wall[r]), regionId |-> r],
   hlc |-> HlcNow(hlc[r], wall[r])]
MessageId(r) == [hlc |-> HlcNow(hlc[r], wall[r]), region |-> r, localSeq |-> NextLocalSeq(r)]
\* What the publisher of a message saw before it, where it appends at the end.
SeenBefore(r, q, left) ==
  LET shown == ToArray(sequence[r][q])
  IN  IF left = LastVisible(sequence[r][q]) THEN {shown[i] : i \in 1 .. Len(shown)} ELSE {}
IsAppendPayload(r, q, left, payload) ==
  payload = [room |-> q, message |-> MessageId(r), originLeft |-> left,
             hlc |-> HlcNow(hlc[r], wall[r]), after |-> SeenBefore(r, q, left)]

LEMMA OperationFields ==
  ASSUME NEW r, NEW type, NEW payload, NEW clock, NEW allowed,
         IssuesOnly(r, Operation(r, type, payload, clock, allowed))
  PROVE  IssuesOf(r, type, payload)
BY DEF IssuesOf, Operation

\* The steps that issue an operation.
LEMMA IssuingSteps ==
  /\ \A r, c, q : JoinRoom(r, c, q) => IssuesOf(r, "membership_add", JoinPayload(r, c, q))
  /\ \A r, c, q : LeaveRoom(r, c, q) => IssuesOf(r, "membership_remove", LeavePayload(r, c, q))
  /\ \A r, q, left : Broadcast(r, q, left) =>
       \E payload : IsAppendPayload(r, q, left, payload) /\ IssuesOf(r, "message_append", payload)
  /\ \A r, q, id : Retract(r, q, id) =>
       IssuesOf(r, "message_remove", [room |-> q, message |-> id])
  /\ \A r, k : SaveSession(r, k) => IssuesOf(r, "session_update", [key |-> k])
  /\ \A r, k : SetGlobalConfig(r, k) => IssuesOf(r, "global_config", [key |-> k])
  /\ \A r, f, type : EditGeofence(r, f, type) => IssuesOf(r, type, EditPayload(r, f))
<1>1. ASSUME NEW r, NEW c, NEW q, JoinRoom(r, c, q)
      PROVE  IssuesOf(r, "membership_add", JoinPayload(r, c, q))
  BY <1>1, OperationFields DEF JoinRoom, IssuesOnly, JoinPayload
<1>2. ASSUME NEW r, NEW c, NEW q, LeaveRoom(r, c, q)
      PROVE  IssuesOf(r, "membership_remove", LeavePayload(r, c, q))
  BY <1>2, OperationFields DEF LeaveRoom, IssuesOnly, LeavePayload
<1>3. ASSUME NEW r, NEW q, NEW left, Broadcast(r, q, left)
      PROVE  \E payload : IsAppendPayload(r, q, left, payload) /\ IssuesOf(r, "message_append", payload)
  <2> DEFINE payload == [room |-> q, message |-> MessageId(r), originLeft |-> left,
                         hlc |-> HlcNow(hlc[r], wall[r]), after |-> SeenBefore(r, q, left)]
  <2>1. IssuesOnly(r, Operation(r, "message_append", payload, VcIncrement(vectorClock[r], r),
                                Residency[q]))
    BY <1>3 DEF Broadcast, IssuesOnly, MessageId, SeenBefore
  <2>2. IssuesOf(r, "message_append", payload)
    BY <2>1, OperationFields
  <2>3. IsAppendPayload(r, q, left, payload)
    BY DEF IsAppendPayload
  <2>4. QED
    BY <2>2, <2>3
<1>4. ASSUME NEW r, NEW q, NEW id, Retract(r, q, id)
      PROVE  IssuesOf(r, "message_remove", [room |-> q, message |-> id])
  BY <1>4, OperationFields DEF Retract, IssuesOnly
<1>5. ASSUME NEW r, NEW k, SaveSession(r, k) PROVE IssuesOf(r, "session_update", [key |-> k])
  BY <1>5, OperationFields DEF SaveSession, IssuesOnly
<1>6. ASSUME NEW r, NEW k, SetGlobalConfig(r, k) PROVE IssuesOf(r, "global_config", [key |-> k])
  BY <1>6, OperationFields DEF SetGlobalConfig, StartQuorum, IssuesOnly
<1>7. ASSUME NEW r, NEW f, NEW type, EditGeofence(r, f, type)
      PROVE  IssuesOf(r, type, EditPayload(r, f))
  BY <1>7, OperationFields DEF EditGeofence, StartQuorum, IssuesOnly, EditPayload
<1>8. QED
  BY <1>1, <1>2, <1>3, <1>4, <1>5, <1>6, <1>7

LEMMA AccountedIssue ==
  ASSUME NEW r \in Regions, NEW o, Accounted, IssuesOnly(r, o)
  PROVE  Accounted'
<1>1. /\ IsFiniteSet(ops') /\ ops \subseteq ops' /\ deployment' = deployment /\ rounds' = rounds
      /\ seen' \in [Regions -> SUBSET ops']
  BY Issuing DEF IssuesOnly
<1>2. QED
  BY <1>1 DEF Accounted, RoundOk, Pulled, Regions

\* The peer's answer is its state at that moment.
LEMMA FetchedSnapshot ==
  ASSUME NEW r \in Regions, Accounted, FetchState(r)
  PROVE  /\ rounds[r].peer \in Regions
         /\ rounds'[r] = [peer |-> rounds'[r].peer, snap |-> rounds'[r].snap]
         /\ rounds'[r].peer = rounds[r].peer
         /\ rounds'[r].snap = Snapshot(rounds[r].peer)
         /\ \A x \in Regions : x # r => rounds'[x] = rounds[x]
         /\ rounds' = [x \in Regions |-> rounds'[x]]
<1>1. /\ rounds[r] # Nobody
      /\ rounds' = [rounds EXCEPT ![r].snap = Snapshot(rounds[r].peer)]
  BY DEF FetchState
<1>2. rounds[r].peer \in Regions /\ rounds[r] = [peer |-> rounds[r].peer, snap |-> rounds[r].snap]
  BY <1>1 DEF RoundOk, Accounted
<1>3. \A x, sn : [x EXCEPT !.snap = sn] = [y \in DOMAIN x |-> IF y = "snap" THEN sn ELSE x[y]]
  OBVIOUS
<1>4. DOMAIN rounds[r] = {"peer", "snap"}
  BY <1>2
<1>5. /\ rounds'[r] = [rounds[r] EXCEPT !.snap = Snapshot(rounds[r].peer)]
      /\ \A x \in Regions : x # r => rounds'[x] = rounds[x]
      /\ rounds' = [x \in Regions |-> rounds'[x]]
  BY <1>1 DEF Accounted
<1>6. rounds'[r] = [peer |-> rounds[r].peer, snap |-> Snapshot(rounds[r].peer)]
  BY <1>3, <1>4, <1>5
<1>7. QED
  BY <1>2, <1>5, <1>6

LEMMA AccountedNext ==
  ASSUME Accounted, [Next]_vars
  PROVE  Accounted'
<1> USE DEF Accounted
<1>a. ASSUME UNCHANGED <<deployment, ops, seen, rounds>> PROVE Accounted'
  BY <1>a DEF RoundOk, Pulled, Regions
<1>1. ASSUME NEW r \in Regions, NEW c \in Clients, NEW q \in Rooms,
             JoinRoom(r, c, q) \/ LeaveRoom(r, c, q)
      PROVE  Accounted'
  BY <1>1, IssuingSteps, AccountedIssue DEF IssuesOf
<1>2. ASSUME NEW r \in Regions, NEW q \in Rooms, NEW left, Broadcast(r, q, left)
      PROVE  Accounted'
  BY <1>2, IssuingSteps, AccountedIssue DEF IssuesOf
<1>3. ASSUME NEW r \in Regions, NEW q \in Rooms, NEW id, Retract(r, q, id)
      PROVE  Accounted'
  BY <1>3, IssuingSteps, AccountedIssue DEF IssuesOf
<1>4. ASSUME NEW r \in Regions, NEW k, SaveSession(r, k) \/ SetGlobalConfig(r, k)
      PROVE  Accounted'
  BY <1>4, IssuingSteps, AccountedIssue DEF IssuesOf
<1>5. ASSUME NEW r \in Regions, NEW f \in Fences, SyncGeofence(r, f) \/ RemoveGeofence(r, f)
      PROVE  Accounted'
  BY <1>5, IssuingSteps, AccountedIssue DEF IssuesOf, SyncGeofence, RemoveGeofence
<1>6. ASSUME NEW w \in quorumWrites, NEW p \in Regions, NEW ack \in BOOLEAN, Settle(w, p, ack)
      PROVE  Accounted'
  BY <1>6, <1>a DEF Settle
<1>7. ASSUME NEW w \in quorumWrites, Decide(w) PROVE Accounted'
  BY <1>7, <1>a DEF Decide
<1>8. ASSUME NEW p \in Regions, NEW o \in ops, HandlePeerOperation(p, o) PROVE Accounted'
  <2>1. /\ UNCHANGED <<deployment, ops, rounds>>
        /\ seen' = [seen EXCEPT ![p] = @ \cup {o}]
    BY <1>8 DEF HandlePeerOperation
  <2>2. QED
    BY <2>1 DEF RoundOk, Pulled, Regions
<1>9. ASSUME NEW r \in Regions, NEW p \in Regions, Probe(r, p) PROVE Accounted'
  <2>1. /\ UNCHANGED <<deployment, ops, seen>>
        /\ rounds' = [rounds EXCEPT ![r] = [peer |-> p, snap |-> NoSnapshot]]
    BY <1>9 DEF Probe
  <2>2. QED
    BY <2>1 DEF RoundOk, Pulled, Regions
<1>10. ASSUME NEW r \in Regions, NEW p \in Regions, ProbeFails(r, p) PROVE Accounted'
  BY <1>10, <1>a DEF ProbeFails
<1>11. ASSUME NEW r \in Regions, FetchState(r) PROVE Accounted'
  <2>1. /\ UNCHANGED <<deployment, ops, seen>>
        /\ rounds[r] # Nobody
        /\ rounds' = [rounds EXCEPT ![r].snap = Snapshot(rounds[r].peer)]
    BY <1>11 DEF FetchState
  <2>2. /\ rounds[r].peer \in Regions
        /\ rounds'[r] = [peer |-> rounds'[r].peer, snap |-> rounds'[r].snap]
        /\ rounds'[r].peer = rounds[r].peer
        /\ rounds'[r].snap = Snapshot(rounds[r].peer)
        /\ \A x \in Regions : x # r => rounds'[x] = rounds[x]
        /\ rounds' = [x \in Regions |-> rounds'[x]]
    BY <1>11, FetchedSnapshot
  <2>3. Snapshot(rounds[r].peer).seen \subseteq ops
    BY <2>2 DEF Snapshot
  <2>9. \A x \in Regions : RoundOk(x)' /\ (Pulled(x)' => rounds'[x].snap.seen \subseteq ops)
    BY <2>1, <2>2, <2>3 DEF RoundOk, Pulled, Regions
  <2>10. QED
    BY <2>1, <2>2, <2>9 DEF Regions
<1>12. ASSUME NEW r \in Regions, FetchFails(r) PROVE Accounted'
  BY <1>12 DEF FetchFails, RoundOk, Pulled, Regions
<1>13. ASSUME NEW r \in Regions, MergeRemoteState(r) PROVE Accounted'
  <2>1. /\ UNCHANGED <<deployment, ops>>
        /\ Pulled(r)
        /\ seen' = [seen EXCEPT ![r] = @ \cup rounds[r].snap.seen]
        /\ rounds' = [rounds EXCEPT ![r] = Nobody]
    BY <1>13 DEF MergeRemoteState, Pulled
  <2>2. QED
    BY <2>1 DEF RoundOk, Pulled, Regions
<1>14. ASSUME NEW r \in Regions, NEW p \in Regions, MarkRegionFailed(r, p) \/ MarkRegionHealthy(r, p)
       PROVE  Accounted'
  BY <1>14, <1>a DEF MarkRegionFailed, MarkRegionHealthy
<1>15. ASSUME NEW r \in Regions, Tick(r) PROVE Accounted'
  BY <1>15, <1>a DEF Tick
<1>16. ASSUME UNCHANGED vars PROVE Accounted'
  BY <1>16, <1>a DEF vars
<1>17. QED
  BY <1>1, <1>2, <1>3, <1>4, <1>5, <1>6, <1>7, <1>8, <1>9, <1>10, <1>11, <1>12, <1>13, <1>14,
     <1>15, <1>16 DEF Next

-------------------------------------------------------------------------------
(* Quorum writes *)

\* The regions that hold an operation.
Holders(o) == {p \in Regions : o \in seen[p]}

\* Every acknowledgement counted so far is one of a region that holds the
\* operation and is not waited for any more.
AcksCounted ==
  /\ quorumWrites \subseteq [op : ops, waiting : SUBSET Regions, acks : Nat]
  /\ \A w \in quorumWrites : w.acks <= Cardinality(Holders(w.op) \ w.waiting)

\* No region forgets an operation, and the regions stay the same.
LEMMA SeenGrows ==
  ASSUME Accounted, [Next]_vars
  PROVE  /\ deployment' = deployment
         /\ ops \subseteq ops'
         /\ \A p \in Regions : seen[p] \subseteq seen'[p]
<1> DEFINE Grows == /\ deployment' = deployment
                    /\ ops \subseteq ops'
                    /\ \A p \in Regions : seen[p] \subseteq seen'[p]
<1>a. ASSUME UNCHANGED <<deployment, ops, seen>> PROVE Grows
  BY <1>a
<1>b. ASSUME NEW r \in Regions, NEW o, IssuesOnly(r, o) PROVE Grows
  BY <1>b, Issuing DEF IssuesOnly
<1>1. ASSUME NEW r \in Regions, NEW c \in Clients, NEW q \in Rooms,
             JoinRoom(r, c, q) \/ LeaveRoom(r, c, q)
      PROVE  Grows
  BY <1>1, IssuingSteps, <1>b DEF IssuesOf
<1>2. ASSUME NEW r \in Regions, NEW q \in Rooms, NEW left, Broadcast(r, q, left) PROVE Grows
  BY <1>2, IssuingSteps, <1>b DEF IssuesOf
<1>3. ASSUME NEW r \in Regions, NEW q \in Rooms, NEW id, Retract(r, q, id) PROVE Grows
  BY <1>3, IssuingSteps, <1>b DEF IssuesOf
<1>4. ASSUME NEW r \in Regions, NEW k, SaveSession(r, k) \/ SetGlobalConfig(r, k) PROVE Grows
  BY <1>4, IssuingSteps, <1>b DEF IssuesOf
<1>5. ASSUME NEW r \in Regions, NEW f \in Fences, SyncGeofence(r, f) \/ RemoveGeofence(r, f)
      PROVE  Grows
  BY <1>5, IssuingSteps, <1>b DEF IssuesOf, SyncGeofence, RemoveGeofence
<1>6. ASSUME NEW p \in Regions, NEW o \in ops, HandlePeerOperation(p, o) PROVE Grows
  BY <1>6 DEF HandlePeerOperation, Accounted
<1>7. ASSUME NEW r \in Regions, MergeRemoteState(r) PROVE Grows
  <2>1. /\ UNCHANGED <<deployment, ops>>
        /\ seen' = [seen EXCEPT ![r] = @ \cup rounds[r].snap.seen]
    BY <1>7 DEF MergeRemoteState
  <2>2. QED
    BY <2>1 DEF Accounted
<1>8. ASSUME NEW r \in Regions, NEW p \in Regions,
             \/ Probe(r, p) \/ ProbeFails(r, p) \/ FetchState(r) \/ FetchFails(r)
             \/ MarkRegionFailed(r, p) \/ MarkRegionHealthy(r, p) \/ Tick(r)
      PROVE  Grows
  BY <1>8, <1>a DEF Probe, ProbeFails, FetchState, FetchFails, MarkRegionFailed,
     MarkRegionHealthy, Tick
<1>9. ASSUME NEW w \in quorumWrites, NEW p, NEW ack, Settle(w, p, ack) \/ Decide(w) PROVE Grows
  BY <1>9, <1>a DEF Settle, Decide
<1>10. ASSUME UNCHANGED vars PROVE Grows
  BY <1>10, <1>a DEF vars
<1>11. QED
  BY <1>1, <1>2, <1>3, <1>4, <1>5, <1>6, <1>7, <1>8, <1>9, <1>10 DEF Next

LEMMA HoldersGrow ==
  ASSUME Accounted, [Next]_vars, NEW o, NEW W \in SUBSET Regions
  PROVE  /\ Cardinality(Holders(o) \ W) \in Nat
         /\ Cardinality(Holders(o) \ W) <= Cardinality((Holders(o))' \ W)
         /\ Cardinality((Holders(o))' \ W) \in Nat
         /\ IsFiniteSet((Holders(o))')
<1>1. IsFiniteSet(Regions)
  BY RegionsFinite
<1>2. (Holders(o))' \subseteq Regions /\ Holders(o) \subseteq (Holders(o))'
  BY SeenGrows DEF Holders, Regions
<1>3. IsFiniteSet((Holders(o))') /\ IsFiniteSet((Holders(o))' \ W)
  BY <1>1, <1>2, FS_Subset
<1>4. Holders(o) \ W \subseteq (Holders(o))' \ W
  BY <1>2
<1>5. IsFiniteSet(Holders(o) \ W)
        /\ Cardinality(Holders(o) \ W) <= Cardinality((Holders(o))' \ W)
  BY <1>3, <1>4, FS_Subset
<1>6. QED
  BY <1>3, <1>5, FS_CardinalityType

LEMMA AcksCountedInit == Init => AcksCounted
BY DEF Init, AcksCounted

\* Steps that leave the calls under way alone.
LEMMA AcksCountedKept ==
  ASSUME Accounted, AcksCounted, [Next]_vars, quorumWrites' = quorumWrites
  PROVE  AcksCounted'
<1>1. Regions' = Regions /\ ops \subseteq ops'
  BY SeenGrows DEF Regions
<1>2. quorumWrites' \subseteq [op : ops', waiting : SUBSET Regions', acks : Nat]
  BY <1>1 DEF AcksCounted
<1>3. ASSUME NEW w \in quorumWrites'
      PROVE  w.acks <= Cardinality((Holders(w.op))' \ w.waiting)
  <2>1. w.waiting \in SUBSET Regions /\ w.acks \in Nat
        /\ w.acks <= Cardinality(Holders(w.op) \ w.waiting)
    BY <1>3 DEF AcksCounted
  <2>2. QED
    BY <2>1, HoldersGrow
<1>4. QED
  BY <1>2, <1>3 DEF AcksCounted

LEMMA AcksCountedStart ==
  ASSUME Accounted, AcksCounted, Next, NEW r \in Regions, NEW o, StartQuorum(r, o),
         o.targets \subseteq Regions \ {r}
  PROVE  AcksCounted'
<1> DEFINE w0 == [op |-> o, waiting |-> o.targets, acks |-> 1]
<1>1. Regions' = Regions /\ ops \subseteq ops'
  BY SeenGrows DEF Regions
<1>2. o \in ops' /\ r \in (Holders(o))' /\ r \notin o.targets /\ o.targets \in SUBSET Regions
  BY <1>1, Issuing DEF StartQuorum, Holders
<1>3. quorumWrites' = quorumWrites \cup {w0}
  BY DEF StartQuorum
<1>4. quorumWrites' \subseteq [op : ops', waiting : SUBSET Regions', acks : Nat]
  BY <1>1, <1>2, <1>3 DEF AcksCounted
<1>5. 1 <= Cardinality((Holders(o))' \ o.targets)
  <2>1. {r} \subseteq (Holders(o))' \ o.targets
    BY <1>2
  <2>2. IsFiniteSet((Holders(o))' \ o.targets)
    BY HoldersGrow, FS_Subset
  <2>3. Cardinality({r}) = 1
    BY FS_Singleton
  <2>4. Cardinality({r}) <= Cardinality((Holders(o))' \ o.targets)
    BY <2>1, <2>2, FS_Subset
  <2>5. QED
    BY <2>3, <2>4
<1>6. ASSUME NEW w \in quorumWrites'
      PROVE  w.acks <= Cardinality((Holders(w.op))' \ w.waiting)
  <2>1. CASE w = w0
    BY <2>1, <1>5
  <2>2. CASE w \in quorumWrites
    <3>1. w.waiting \in SUBSET Regions /\ w.acks \in Nat
          /\ w.acks <= Cardinality(Holders(w.op) \ w.waiting)
      BY <2>2 DEF AcksCounted
    <3>2. QED
      BY <3>1, HoldersGrow
  <2>3. QED
    BY <1>3, <1>6, <2>1, <2>2
<1>7. QED
  BY <1>4, <1>6 DEF AcksCounted

LEMMA TargetsAreOthers ==
  ASSUME NEW r, NEW type, NEW payload, NEW clock, NEW allowed
  PROVE  Operation(r, type, payload, clock, allowed).targets \subseteq Regions \ {r}
BY DEF Operation, Targets

LEMMA AcksCountedSettle ==
  ASSUME Accounted, AcksCounted, Next, NEW w \in quorumWrites, NEW p \in Regions,
         NEW ack \in BOOLEAN, Settle(w, p, ack)
  PROVE  AcksCounted'
<1> DEFINE n == IF ack THEN w.acks + 1 ELSE w.acks
           H == Holders(w.op)
<1>1. /\ UNCHANGED <<deployment, ops, seen>>
      /\ p \in w.waiting
      /\ ack => p \in H
      /\ quorumWrites' = (quorumWrites \ {w}) \cup
           {[w EXCEPT !.waiting = @ \ {p}, !.acks = IF ack THEN @ + 1 ELSE @]}
  BY DEF Settle, Holders
<1>2. w \in [op : ops, waiting : SUBSET Regions, acks : Nat] /\ w.acks <= Cardinality(H \ w.waiting)
  BY DEF AcksCounted
<1> DEFINE w1 == [w EXCEPT !.waiting = @ \ {p}, !.acks = IF ack THEN @ + 1 ELSE @]
<1>3. n \in Nat /\ w1 \in [op : ops, waiting : SUBSET Regions, acks : Nat]
  <2>1. ASSUME NEW i \in Nat, NEW W \in SUBSET Regions
        PROVE  [w EXCEPT !.waiting = W, !.acks = i] \in [op : ops, waiting : SUBSET Regions, acks : Nat]
    BY <1>2
  <2>2. n \in Nat /\ w.waiting \ {p} \in SUBSET Regions
    BY <1>2
  <2>3. w1 = [w EXCEPT !.waiting = w.waiting \ {p}, !.acks = n]
    OBVIOUS
  <2>4. QED
    BY <2>1, <2>2, <2>3
<1>5. w1.op = w.op /\ w1.waiting = w.waiting \ {p} /\ w1.acks = n
  <2>1. w1.op = w.op
    BY <1>2
  <2>2. w1.waiting = w.waiting \ {p}
    BY <1>2
  <2>3. w1.acks = n
    BY <1>2
  <2>4. QED
    BY <2>1, <2>2, <2>3
<1>4. \A o : (Holders(o))' = Holders(o)
  BY <1>1 DEF Holders, Regions
<1>6. n <= Cardinality(H \ (w.waiting \ {p}))
  <2> HIDE DEF H
  <2>1. IsFiniteSet(H)
    BY RegionsFinite, FS_Subset DEF H, Holders
  <2>2. IsFiniteSet(H \ w.waiting) /\ IsFiniteSet(H \ (w.waiting \ {p}))
    BY <2>1, FS_Subset
  <2>3. CASE ack
    <3>1. H \ (w.waiting \ {p}) = (H \ w.waiting) \cup {p} /\ p \notin H \ w.waiting
      BY <1>1, <2>3
    <3>2. Cardinality(H \ (w.waiting \ {p})) = Cardinality(H \ w.waiting) + 1
      BY <3>1, <2>2, FS_AddElement
    <3>3. QED
      BY <3>2, <2>2, <2>3, <1>2, FS_CardinalityType
  <2>4. CASE ~ack
    <3>1. H \ w.waiting \subseteq H \ (w.waiting \ {p})
      OBVIOUS
    <3>2. Cardinality(H \ w.waiting) <= Cardinality(H \ (w.waiting \ {p}))
      BY <3>1, <2>2, FS_Subset
    <3>3. QED
      BY <3>2, <2>2, <2>4, <1>2, FS_CardinalityType
  <2>5. QED
    BY <2>3, <2>4
<1>7. quorumWrites' = (quorumWrites \ {w}) \cup {w1}
  BY <1>1
<1> HIDE DEF n, w1
<1>8. quorumWrites' \subseteq [op : ops', waiting : SUBSET Regions', acks : Nat]
  BY <1>1, <1>3, <1>7 DEF AcksCounted, Regions
<1>9. ASSUME NEW x \in quorumWrites' PROVE x.acks <= Cardinality(Holders(x.op) \ x.waiting)
  <2>1. CASE x \in quorumWrites
    BY <2>1 DEF AcksCounted
  <2>2. CASE x = w1
    BY <2>2, <1>5, <1>6
  <2>3. QED
    BY <1>7, <2>1, <2>2
<1>10. QED
  BY <1>4, <1>8, <1>9 DEF AcksCounted

LEMMA AcksCountedNext ==
  ASSUME Accounted, AcksCounted, [Next]_vars
  PROVE  AcksCounted'
<1>1. CASE quorumWrites' = quorumWrites
  BY <1>1, AcksCountedKept
<1>2. ASSUME NEW r \in Regions, NEW f, NEW type, Next, EditGeofence(r, f, type)
      PROVE  AcksCounted'
  BY <1>2, AcksCountedStart, TargetsAreOthers DEF EditGeofence
<1>3. ASSUME NEW r \in Regions, NEW k, Next, SetGlobalConfig(r, k) PROVE AcksCounted'
  BY <1>3, AcksCountedStart, TargetsAreOthers DEF SetGlobalConfig
<1>4. ASSUME NEW w \in quorumWrites, NEW p \in Regions, NEW ack \in BOOLEAN, Next,
             Settle(w, p, ack)
      PROVE  AcksCounted'
  BY <1>4, AcksCountedSettle
<1>5. ASSUME NEW w \in quorumWrites, Decide(w) PROVE AcksCounted'
  <2>1. UNCHANGED <<deployment, ops, seen>> /\ quorumWrites' = quorumWrites \ {w}
    BY <1>5 DEF Decide
  <2>2. QED
    BY <2>1 DEF AcksCounted, Holders, Regions
<1>6. ASSUME NEW r \in Regions, NEW c, NEW q, JoinRoom(r, c, q) \/ LeaveRoom(r, c, q)
      PROVE  quorumWrites' = quorumWrites
  BY <1>6 DEF JoinRoom, LeaveRoom
<1>7. ASSUME NEW r \in Regions, NEW q, NEW left, Broadcast(r, q, left)
      PROVE  quorumWrites' = quorumWrites
  BY <1>7 DEF Broadcast
<1>8. ASSUME NEW r \in Regions, NEW q, NEW id, Retract(r, q, id)
      PROVE  quorumWrites' = quorumWrites
  BY <1>8 DEF Retract
<1>9. ASSUME NEW r \in Regions, NEW k, SaveSession(r, k) PROVE quorumWrites' = quorumWrites
  BY <1>9 DEF SaveSession
<1>10. ASSUME NEW p \in Regions, NEW o, HandlePeerOperation(p, o)
       PROVE  quorumWrites' = quorumWrites
  BY <1>10 DEF HandlePeerOperation
<1>11. ASSUME NEW r \in Regions, NEW p \in Regions,
              \/ Probe(r, p) \/ ProbeFails(r, p) \/ FetchState(r) \/ FetchFails(r)
              \/ MergeRemoteState(r)
              \/ MarkRegionFailed(r, p) \/ MarkRegionHealthy(r, p) \/ Tick(r)
       PROVE  quorumWrites' = quorumWrites
  BY <1>11 DEF Probe, ProbeFails, FetchState, FetchFails, MergeRemoteState, MarkRegionFailed,
     MarkRegionHealthy, Tick
<1>12. CASE UNCHANGED vars
  BY <1>12, <1>1 DEF vars
<1>13. QED
  BY <1>1, <1>2, <1>3, <1>4, <1>5, <1>6, <1>7, <1>8, <1>9, <1>10, <1>11, <1>12
     DEF Next, SyncGeofence, RemoveGeofence

\* quorumReplicate() reports only what it counted.
LEMMA CommittedNext ==
  ASSUME Accounted, AcksCounted, CommittedOnMajority, [Next]_vars
  PROVE  CommittedOnMajority'
<1> SUFFICES ASSUME QuorumOverride = 0, NEW d \in decided', d.committed
             PROVE  2 * Cardinality((Holders(d.op))') > Cardinality(Regions)
  BY SeenGrows DEF CommittedOnMajority, Holders, Regions
<1>0. Cardinality(Regions) \in Nat
  BY RegionsFinite, FS_CardinalityType
<1>1. CASE d \in decided
  <2>1. 2 * Cardinality(Holders(d.op)) > Cardinality(Regions)
    BY <1>1 DEF CommittedOnMajority, Holders
  <2>2. \A S : S \ {} = S
    OBVIOUS
  <2>3. /\ Cardinality(Holders(d.op)) \in Nat /\ Cardinality((Holders(d.op))') \in Nat
        /\ Cardinality(Holders(d.op)) <= Cardinality((Holders(d.op))')
    <3>1. {} \in SUBSET Regions
      OBVIOUS
    <3>2. QED
      BY <3>1, <2>2, HoldersGrow
  <2>4. QED
    BY <1>0, <2>1, <2>3
<1>2. ASSUME NEW w \in quorumWrites, Decide(w), d \notin decided
      PROVE  2 * Cardinality((Holders(d.op))') > Cardinality(Regions)
  <2>1. /\ UNCHANGED <<deployment, seen>>
        /\ w.waiting = {}
        /\ d = [op |-> w.op, committed |-> w.acks >= QuorumSize]
    BY <1>2 DEF Decide
  <2>2. w.acks >= QuorumSize /\ d.op = w.op
    BY <2>1
  <2>3. QuorumSize = Cardinality(Regions) \div 2 + 1
    BY DEF QuorumSize
  <2>4. w.acks \in Nat /\ w.acks <= Cardinality(Holders(w.op))
    <3>1. Holders(w.op) \ w.waiting = Holders(w.op)
      BY <2>1
    <3>2. QED
      BY <3>1 DEF AcksCounted
  <2>5. (Holders(d.op))' = Holders(w.op)
    BY <2>1, <2>2 DEF Holders, Regions
  <2>6. IsFiniteSet(Holders(w.op))
    BY RegionsFinite, FS_Subset DEF Holders
  <2>7. QED
    BY <1>0, <2>2, <2>3, <2>4, <2>5, <2>6, FS_CardinalityType
<1>3. CASE decided' = decided
  BY <1>1, <1>3
<1>4. ASSUME NEW r \in Regions, NEW c, NEW q, JoinRoom(r, c, q) \/ LeaveRoom(r, c, q)
      PROVE  decided' = decided
  BY <1>4 DEF JoinRoom, LeaveRoom
<1>5. ASSUME NEW r \in Regions, NEW q, NEW left, Broadcast(r, q, left) PROVE decided' = decided
  BY <1>5 DEF Broadcast
<1>6. ASSUME NEW r \in Regions, NEW q, NEW id, Retract(r, q, id) PROVE decided' = decided
  BY <1>6 DEF Retract
<1>7. ASSUME NEW r \in Regions, NEW k, SaveSession(r, k) \/ SetGlobalConfig(r, k)
      PROVE  decided' = decided
  BY <1>7 DEF SaveSession, SetGlobalConfig, StartQuorum
<1>8. ASSUME NEW r \in Regions, NEW f, NEW type, EditGeofence(r, f, type)
      PROVE  decided' = decided
  BY <1>8 DEF EditGeofence, StartQuorum
<1>9. ASSUME NEW p \in Regions, NEW o, HandlePeerOperation(p, o) PROVE decided' = decided
  BY <1>9 DEF HandlePeerOperation
<1>10. ASSUME NEW r \in Regions, NEW p \in Regions,
              \/ Probe(r, p) \/ ProbeFails(r, p) \/ FetchState(r) \/ FetchFails(r)
              \/ MergeRemoteState(r)
              \/ MarkRegionFailed(r, p) \/ MarkRegionHealthy(r, p) \/ Tick(r)
       PROVE  decided' = decided
  BY <1>10 DEF Probe, ProbeFails, FetchState, FetchFails, MergeRemoteState, MarkRegionFailed,
     MarkRegionHealthy, Tick
<1>11. ASSUME NEW w, NEW p, NEW ack, Settle(w, p, ack) PROVE decided' = decided
  BY <1>11 DEF Settle
<1>12. CASE UNCHANGED vars
  BY <1>12, <1>3 DEF vars
<1>13. QED
  BY <1>1, <1>2, <1>3, <1>4, <1>5, <1>6, <1>7, <1>8, <1>9, <1>10, <1>11, <1>12
     DEF Next, SyncGeofence, RemoveGeofence

\* A geofence edit or a global config that quorumReplicate() reports committed
\* is held by a majority of the regions, whatever is lost, late or marked failed.
THEOREM QuorumSafe == Spec => []CommittedOnMajority
<1>1. Init => CommittedOnMajority
  BY DEF Init, CommittedOnMajority
<1>2. QED
  BY <1>1, AccountedInit, AccountedNext, AcksCountedInit, AcksCountedNext, CommittedNext, PTL
     DEF Spec

-------------------------------------------------------------------------------
(* The identities and the shape of the operations *)

\* Operations have identities of their own, which no operation knew before they
\* were issued.
OpsNumbered ==
  /\ \A o \in ops : /\ o.id \in Regions \X Nat
                    /\ o.id[2] <= Cardinality(OpsOf(o.id[1]))
                    /\ o.past \subseteq {x.id : x \in ops}
  /\ \A o, x \in ops : o.id = x.id => o = x

\* Messages too, by the counter of their region.
AppendsOf(r) == {o \in OpsOf(r) : o.type = "message_append"}

MessagesNumbered ==
  /\ \A o \in ops : o.type = "message_append" =>
       /\ o.payload.message.region = o.id[1]
       /\ o.payload.message.localSeq \in Nat
       /\ o.payload.message.localSeq <= Cardinality(AppendsOf(o.id[1]))
  /\ \A o, x \in ops :
       /\ o.type = "message_append" /\ x.type = "message_append"
       /\ o.payload.message = x.payload.message
       => o = x

\* What an operation of each type carries.
WellFormed(o) ==
  /\ o.type = "membership_add" => o.payload.room \in Rooms /\ o.payload.tag = o.id
  /\ o.type \in {"membership_remove", "message_append", "message_remove"} =>
       o.payload.room \in Rooms
  /\ CarriesHlc(o) => o.payload.hlc \in Reading
  /\ o.type \in {"geofence_upsert", "geofence_remove"} =>
       o.payload.fence \in Fences /\ o.payload.stamp \in Stamp

Shapes ==
  /\ \A o \in ops : WellFormed(o)
  /\ hlc \in [Regions -> Reading]
  /\ wall \in [Regions -> Nat]

\* What region r may say in an operation of its own.
Says(r, type, payload) ==
  \/ type = "membership_add" /\ \E c, q : q \in Rooms /\ payload = JoinPayload(r, c, q)
  \/ type = "membership_remove" /\ \E c, q : q \in Rooms /\ payload = LeavePayload(r, c, q)
  \/ type = "message_append" /\ \E q, left : q \in Rooms /\ IsAppendPayload(r, q, left, payload)
  \/ type = "message_remove" /\ \E q, id : q \in Rooms /\ payload = [room |-> q, message |-> id]
  \/ type \in {"session_update", "global_config"}
  \/ /\ type \in {"geofence_upsert", "geofence_remove"}
     /\ \E f : f \in Fences /\ payload = EditPayload(r, f)

\* Operations come into being one at a time, each issued by its region.
LEMMA OpsStep ==
  ASSUME [Next]_vars
  PROVE  \/ ops' = ops
         \/ \E r, type, payload : r \in Regions /\ Says(r, type, payload) /\ IssuesOf(r, type, payload)
<1> DEFINE Goal ==
      \E r, type, payload : r \in Regions /\ Says(r, type, payload) /\ IssuesOf(r, type, payload)
<1>1. ASSUME NEW r \in Regions, NEW c, NEW q \in Rooms, JoinRoom(r, c, q) PROVE Goal
  BY <1>1, IssuingSteps DEF Says
<1>2. ASSUME NEW r \in Regions, NEW c, NEW q \in Rooms, LeaveRoom(r, c, q) PROVE Goal
  BY <1>2, IssuingSteps DEF Says
<1>3. ASSUME NEW r \in Regions, NEW q \in Rooms, NEW left, Broadcast(r, q, left) PROVE Goal
  BY <1>3, IssuingSteps DEF Says
<1>4. ASSUME NEW r \in Regions, NEW q \in Rooms, NEW id, Retract(r, q, id) PROVE Goal
  <2>1. IssuesOf(r, "message_remove", [room |-> q, message |-> id])
    BY <1>4, IssuingSteps
  <2>2. Says(r, "message_remove", [room |-> q, message |-> id])
    BY DEF Says
  <2>3. QED
    BY <2>1, <2>2
<1>5. ASSUME NEW r \in Regions, NEW k, SaveSession(r, k) \/ SetGlobalConfig(r, k) PROVE Goal
  BY <1>5, IssuingSteps DEF Says
<1>6. ASSUME NEW r \in Regions, NEW f \in Fences, SyncGeofence(r, f) \/ RemoveGeofence(r, f)
      PROVE  Goal
  BY <1>6, IssuingSteps DEF Says, SyncGeofence, RemoveGeofence
<1>7. ASSUME NEW p, NEW o, HandlePeerOperation(p, o) PROVE ops' = ops
  BY <1>7 DEF HandlePeerOperation
<1>8. ASSUME NEW r, NEW p,
             \/ Probe(r, p) \/ ProbeFails(r, p) \/ FetchState(r) \/ FetchFails(r)
             \/ MergeRemoteState(r)
             \/ MarkRegionFailed(r, p) \/ MarkRegionHealthy(r, p) \/ Tick(r)
      PROVE  ops' = ops
  BY <1>8 DEF Probe, ProbeFails, FetchState, FetchFails, MergeRemoteState, MarkRegionFailed,
     MarkRegionHealthy, Tick
<1>9. ASSUME NEW w, NEW p, NEW ack, Settle(w, p, ack) \/ Decide(w) PROVE ops' = ops
  BY <1>9 DEF Settle, Decide
<1>10. CASE UNCHANGED vars
  BY <1>10 DEF vars
<1>11. QED
  BY <1>1, <1>2, <1>3, <1>4, <1>5, <1>6, <1>7, <1>8, <1>9, <1>10 DEF Next

LEMMA FreshId ==
  ASSUME Accounted, OpsNumbered, NEW r \in Regions
  PROVE  /\ IsFiniteSet(OpsOf(r)) /\ Cardinality(OpsOf(r)) \in Nat
         /\ NextId(r) \in Regions \X Nat
         /\ \A x \in ops : x.id # NextId(r)
<1>1. IsFiniteSet(OpsOf(r)) /\ Cardinality(OpsOf(r)) \in Nat
  BY FS_Subset, FS_CardinalityType DEF Accounted, OpsOf
<1>2. NextId(r) \in Regions \X Nat
  BY <1>1 DEF NextId
<1>3. ASSUME NEW x \in ops, x.id = NextId(r) PROVE FALSE
  <2>1. x.id[1] = r /\ x.id[2] = Cardinality(OpsOf(r)) + 1
    BY <1>3 DEF NextId
  <2>2. x.id[2] <= Cardinality(OpsOf(r))
    BY <2>1 DEF OpsNumbered
  <2>3. QED
    BY <1>1, <2>1, <2>2
<1>4. QED
  BY <1>1, <1>2, <1>3

\* What the counters are after region r has issued o.
LEMMA CountsGrow ==
  ASSUME Accounted, OpsNumbered, NEW r \in Regions, NEW o, IssuesOnly(r, o), o.id = NextId(r)
  PROVE  /\ o \notin ops
         /\ Cardinality((OpsOf(r))') = Cardinality(OpsOf(r)) + 1
         /\ o.type = "message_append" =>
              Cardinality((AppendsOf(r))') = Cardinality(AppendsOf(r)) + 1
         /\ \A p \in Regions : /\ Cardinality(OpsOf(p)) \in Nat
                               /\ Cardinality(AppendsOf(p)) \in Nat
                               /\ Cardinality(OpsOf(p)) <= Cardinality((OpsOf(p))')
                               /\ Cardinality(AppendsOf(p)) <= Cardinality((AppendsOf(p))')
<1>1. ops' = ops \cup {o} /\ IsFiniteSet(ops')
  BY Issuing DEF IssuesOnly
<1>2. o \notin ops
  BY FreshId
<1>3. o.id[1] = r
  BY DEF NextId
<1>4. (OpsOf(r))' = OpsOf(r) \cup {o} /\ o \notin OpsOf(r)
  BY <1>1, <1>2, <1>3 DEF OpsOf
<1>5. Cardinality((OpsOf(r))') = Cardinality(OpsOf(r)) + 1
  BY <1>4, FreshId, FS_AddElement
<1>6. ASSUME NEW p \in Regions
      PROVE  /\ IsFiniteSet(OpsOf(p)) /\ IsFiniteSet((OpsOf(p))')
             /\ IsFiniteSet(AppendsOf(p)) /\ IsFiniteSet((AppendsOf(p))')
             /\ OpsOf(p) \subseteq (OpsOf(p))' /\ AppendsOf(p) \subseteq (AppendsOf(p))'
  <2>1. OpsOf(p) \subseteq (OpsOf(p))' /\ AppendsOf(p) \subseteq (AppendsOf(p))'
    BY <1>1 DEF OpsOf, AppendsOf
  <2>2. (OpsOf(p))' \subseteq ops' /\ (AppendsOf(p))' \subseteq ops'
    BY DEF OpsOf, AppendsOf
  <2>3. IsFiniteSet((OpsOf(p))') /\ IsFiniteSet((AppendsOf(p))')
    BY <1>1, <2>2, FS_Subset
  <2>4. IsFiniteSet(OpsOf(p)) /\ IsFiniteSet(AppendsOf(p))
    BY <2>1, <2>3, FS_Subset
  <2>5. QED
    BY <2>1, <2>3, <2>4
<1>7. ASSUME o.type = "message_append"
      PROVE  Cardinality((AppendsOf(r))') = Cardinality(AppendsOf(r)) + 1
  <2>1. (AppendsOf(r))' = AppendsOf(r) \cup {o} /\ o \notin AppendsOf(r)
    BY <1>4, <1>7 DEF AppendsOf
  <2>2. QED
    BY <2>1, <1>6, FS_AddElement
<1>8. QED
  BY <1>2, <1>5, <1>6, <1>7, FS_Subset, FS_CardinalityType

LEMMA OpsNumberedNext ==
  ASSUME Accounted, OpsNumbered, [Next]_vars
  PROVE  OpsNumbered'
<1>0. Regions' = Regions
  BY SeenGrows DEF Regions
<1>1. CASE ops' = ops
  BY <1>0, <1>1 DEF OpsNumbered, OpsOf
<1>2. ASSUME NEW r \in Regions, NEW type, NEW payload, IssuesOf(r, type, payload)
      PROVE  OpsNumbered'
  <2>1. PICK o : /\ IssuesOnly(r, o) /\ o.id = NextId(r)
                 /\ o.past = {x.id : x \in seen[r]}
    BY <1>2 DEF IssuesOf
  <2>2. ops' = ops \cup {o}
    BY <2>1, Issuing DEF IssuesOnly
  <2>3. NextId(r) \in Regions \X Nat /\ \A x \in ops : x.id # NextId(r)
    BY FreshId
  <2>4. \A x, y \in ops' : x.id = y.id => x = y
    BY <2>1, <2>2, <2>3 DEF OpsNumbered
  <2>5. o.past \subseteq {x.id : x \in ops'}
    BY <2>1, <2>2 DEF Accounted
  <2>6. o.id \in Regions \X Nat /\ o.id[2] <= Cardinality((OpsOf(o.id[1]))')
    <3>1. o.id[1] = r /\ o.id[2] = Cardinality(OpsOf(r)) + 1
      BY <2>1 DEF NextId
    <3>2. Cardinality((OpsOf(r))') = Cardinality(OpsOf(r)) + 1 /\ Cardinality(OpsOf(r)) \in Nat
      BY <2>1, CountsGrow
    <3>3. QED
      BY <2>1, <2>3, <3>1, <3>2
  <2>7. ASSUME NEW x \in ops
        PROVE  /\ x.id \in Regions \X Nat /\ x.id[2] <= Cardinality((OpsOf(x.id[1]))')
               /\ x.past \subseteq {y.id : y \in ops'}
    <3>1. /\ x.id \in Regions \X Nat /\ x.id[2] <= Cardinality(OpsOf(x.id[1]))
          /\ x.past \subseteq {y.id : y \in ops}
      BY DEF OpsNumbered
    <3>2. x.id[1] \in Regions /\ x.id[2] \in Nat
      BY <3>1
    <3>3. /\ Cardinality(OpsOf(x.id[1])) \in Nat
          /\ Cardinality(OpsOf(x.id[1])) <= Cardinality((OpsOf(x.id[1]))')
      BY <3>2, <2>1, CountsGrow
    <3>4. Cardinality((OpsOf(x.id[1]))') \in Nat
      <4>1. (OpsOf(x.id[1]))' \subseteq ops' /\ IsFiniteSet(ops')
        BY <2>1, Issuing DEF OpsOf, IssuesOnly
      <4>2. QED
        BY <4>1, FS_Subset, FS_CardinalityType
    <3>5. {y.id : y \in ops} \subseteq {y.id : y \in ops'}
      BY <2>2
    <3>6. QED
      BY <3>1, <3>2, <3>3, <3>4, <3>5
  <2>8. QED
    BY <1>0, <2>2, <2>4, <2>5, <2>6, <2>7 DEF OpsNumbered
<1>3. QED
  BY <1>1, <1>2, OpsStep

LEMMA MessagesNumberedNext ==
  ASSUME Accounted, OpsNumbered, MessagesNumbered, [Next]_vars
  PROVE  MessagesNumbered'
<1>1. CASE ops' = ops
  BY <1>1 DEF MessagesNumbered, AppendsOf, OpsOf
<1>2. ASSUME NEW r \in Regions, NEW type, NEW payload, Says(r, type, payload),
             IssuesOf(r, type, payload)
      PROVE  MessagesNumbered'
  <2>1. PICK o : IssuesOnly(r, o) /\ o.id = NextId(r) /\ o.type = type /\ o.payload = payload
    BY <1>2 DEF IssuesOf
  <2>2. ops' = ops \cup {o} /\ o.id[1] = r /\ IsFiniteSet(ops')
    BY <2>1, Issuing DEF IssuesOnly, NextId
  <2>3. \A p \in Regions : Cardinality((AppendsOf(p))') \in Nat
    BY <2>2, FS_Subset, FS_CardinalityType DEF AppendsOf, OpsOf
  <2>4. ASSUME NEW x \in ops, x.type = "message_append"
        PROVE  /\ x.payload.message.region = x.id[1]
               /\ x.payload.message.localSeq \in Nat
               /\ x.payload.message.localSeq <= Cardinality(AppendsOf(x.id[1]))
               /\ x.payload.message.localSeq <= Cardinality((AppendsOf(x.id[1]))')
    <3>1. /\ x.payload.message.region = x.id[1]
          /\ x.payload.message.localSeq \in Nat
          /\ x.payload.message.localSeq <= Cardinality(AppendsOf(x.id[1]))
      BY <2>4 DEF MessagesNumbered
    <3>2. x.id[1] \in Regions
      BY DEF OpsNumbered
    <3>3. /\ Cardinality(AppendsOf(x.id[1])) <= Cardinality((AppendsOf(x.id[1]))')
          /\ Cardinality(AppendsOf(x.id[1])) \in Nat
      BY <2>1, <3>2, CountsGrow
    <3>4. QED
      BY <2>3, <3>1, <3>2, <3>3
  <2>5. ASSUME o.type = "message_append"
        PROVE  /\ o.payload.message.region = r
               /\ o.payload.message.localSeq \in Nat
               /\ o.payload.message.localSeq <= Cardinality((AppendsOf(r))')
               /\ \A x \in ops : x.type = "message_append" => x.payload.message # o.payload.message
    <3>1. o.payload.message = MessageId(r)
      BY <1>2, <2>1, <2>5 DEF Says, IsAppendPayload
    <3>2. /\ o.payload.message.region = r
          /\ o.payload.message.localSeq = Cardinality(AppendsOf(r)) + 1
      BY <3>1 DEF MessageId, NextLocalSeq, AppendsOf
    <3>3. /\ Cardinality((AppendsOf(r))') = Cardinality(AppendsOf(r)) + 1
          /\ Cardinality(AppendsOf(r)) \in Nat
      BY <2>1, <2>5, CountsGrow
    <3>4. ASSUME NEW x \in ops, x.type = "message_append", x.payload.message = o.payload.message
          PROVE  FALSE
      BY <2>4, <3>2, <3>3, <3>4
    <3>5. QED
      BY <3>2, <3>3, <3>4
  <2>6. QED
    BY <2>2, <2>4, <2>5 DEF MessagesNumbered
<1>3. QED
  BY <1>1, <1>2, OpsStep

LEMMA HlcTypes ==
  ASSUME NEW h \in Reading, NEW remote \in Reading, NEW w \in Nat
  PROVE  HlcNow(h, w) \in Reading /\ HlcReceive(h, remote, w) \in Reading
<1>1. h.l \in Nat /\ h.c \in Nat /\ remote.l \in Nat /\ remote.c \in Nat
  BY DEF Reading
<1>2. \A l, c \in Nat : [l |-> l, c |-> c] \in Reading
  BY DEF Reading
<1>3. HlcNow(h, w) \in Reading
  BY <1>1, <1>2 DEF HlcNow
<1>4. HlcReceive(h, remote, w) \in Reading
  BY <1>1, <1>2 DEF HlcReceive
<1>5. QED
  BY <1>3, <1>4

LEMMA OpsWellFormedNext ==
  ASSUME Accounted, Shapes, [Next]_vars
  PROVE  \A o \in ops' : WellFormed(o)
<1>1. CASE ops' = ops
  BY <1>1 DEF Shapes
<1>2. ASSUME NEW r \in Regions, NEW type, NEW payload, Says(r, type, payload),
             IssuesOf(r, type, payload)
      PROVE  \A o \in ops' : WellFormed(o)
  <2>1. PICK o : IssuesOnly(r, o) /\ o.id = NextId(r) /\ o.type = type /\ o.payload = payload
    BY <1>2 DEF IssuesOf
  <2>2. ops' = ops \cup {o}
    BY <2>1, Issuing DEF IssuesOnly
  <2>3. r \in Nat /\ HlcNow(hlc[r], wall[r]) \in Reading
    BY RegionsFinite, HlcTypes DEF Shapes
  <2>4. WellFormed(o)
    <3>1. CASE type = "membership_add"
      BY <1>2, <2>1, <3>1 DEF Says, JoinPayload, WellFormed, CarriesHlc
    <3>2. CASE type = "membership_remove"
      BY <1>2, <2>1, <3>2 DEF Says, LeavePayload, WellFormed, CarriesHlc
    <3>3. CASE type = "message_append"
      BY <1>2, <2>1, <2>3, <3>3 DEF Says, IsAppendPayload, WellFormed, CarriesHlc
    <3>4. CASE type = "message_remove"
      BY <1>2, <2>1, <3>4 DEF Says, WellFormed, CarriesHlc
    <3>5. CASE type \in {"session_update", "global_config"}
      BY <2>1, <3>5 DEF WellFormed, CarriesHlc
    <3>6. CASE type \in {"geofence_upsert", "geofence_remove"}
      <4>1. PICK f : f \in Fences /\ payload = EditPayload(r, f)
        BY <1>2, <3>6 DEF Says
      <4>2. payload.fence \in Fences /\ payload.hlc \in Reading /\ payload.stamp \in Stamp
        BY <2>3, <4>1 DEF EditPayload, Stamp
      <4>3. QED
        BY <2>1, <3>6, <4>2 DEF WellFormed, CarriesHlc
    <3>7. QED
      BY <1>2, <3>1, <3>2, <3>3, <3>4, <3>5, <3>6 DEF Says
  <2>5. QED
    BY <2>2, <2>4 DEF Shapes
<1>3. QED
  BY <1>1, <1>2, OpsStep

LEMMA ShapesNext ==
  ASSUME Accounted, Shapes, [Next]_vars
  PROVE  Shapes'
<1>0. \A o \in ops' : WellFormed(o)
  BY OpsWellFormedNext
<1>00. Regions' = Regions
  BY SeenGrows DEF Regions
<1> DEFINE Clocked == hlc' \in [Regions -> Reading] /\ wall' \in [Regions -> Nat]
<1>a. ASSUME UNCHANGED <<hlc, wall>> PROVE Clocked
  BY <1>a DEF Shapes
<1>b. ASSUME NEW r \in Regions, hlc' = [hlc EXCEPT ![r] = HlcNow(hlc[r], wall[r])], wall' = wall
      PROVE  Clocked
  BY <1>b, HlcTypes DEF Shapes
<1>1. ASSUME NEW r \in Regions, NEW c, NEW q, JoinRoom(r, c, q) \/ LeaveRoom(r, c, q) PROVE Clocked
  BY <1>1, <1>a DEF JoinRoom, LeaveRoom, clocks
<1>2. ASSUME NEW r \in Regions, NEW q, NEW left, Broadcast(r, q, left) PROVE Clocked
  BY <1>2, <1>b DEF Broadcast
<1>3. ASSUME NEW r, NEW q, NEW id, Retract(r, q, id) PROVE Clocked
  BY <1>3, <1>a DEF Retract, clocks
<1>4. ASSUME NEW r, NEW k, SaveSession(r, k) \/ SetGlobalConfig(r, k) PROVE Clocked
  BY <1>4, <1>a DEF SaveSession, SetGlobalConfig
<1>5. ASSUME NEW r \in Regions, NEW f, NEW type, EditGeofence(r, f, type) PROVE Clocked
  BY <1>5, <1>b DEF EditGeofence
<1>6. ASSUME NEW p \in Regions, NEW o \in ops, HandlePeerOperation(p, o) PROVE Clocked
  <2>1. /\ wall' = wall
        /\ hlc' = [hlc EXCEPT ![p] = IF CarriesHlc(o) THEN HlcReceive(hlc[p], o.payload.hlc, wall[p])
                                     ELSE hlc[p]]
    BY <1>6 DEF HandlePeerOperation
  <2>2. CASE CarriesHlc(o)
    <3>1. o.payload.hlc \in Reading
      BY <2>2 DEF Shapes, WellFormed
    <3>2. HlcReceive(hlc[p], o.payload.hlc, wall[p]) \in Reading
      BY <3>1, HlcTypes DEF Shapes
    <3>3. QED
      BY <2>1, <2>2, <3>2 DEF Shapes
  <2>3. CASE ~CarriesHlc(o)
    BY <2>1, <2>3 DEF Shapes
  <2>4. QED
    BY <2>2, <2>3
<1>7. ASSUME NEW r, NEW p,
             \/ Probe(r, p) \/ ProbeFails(r, p) \/ FetchState(r) \/ FetchFails(r)
             \/ MarkRegionFailed(r, p) \/ MarkRegionHealthy(r, p)
      PROVE  Clocked
  BY <1>7, <1>a DEF Probe, ProbeFails, FetchState, FetchFails, MarkRegionFailed,
     MarkRegionHealthy, clocks
<1>8. ASSUME NEW r, MergeRemoteState(r) PROVE Clocked
  BY <1>8, <1>a DEF MergeRemoteState
<1>9. ASSUME NEW r \in Regions, Tick(r) PROVE Clocked
  BY <1>9 DEF Tick, Shapes
<1>10. ASSUME NEW w, NEW p, NEW ack, Settle(w, p, ack) \/ Decide(w) PROVE Clocked
  BY <1>10, <1>a DEF Settle, Decide, clocks
<1>11. ASSUME UNCHANGED vars PROVE Clocked
  BY <1>11, <1>a DEF vars, clocks
<1>12. Clocked
  BY <1>1, <1>2, <1>3, <1>4, <1>5, <1>6, <1>7, <1>8, <1>9, <1>10, <1>11
     DEF Next, SyncGeofence, RemoveGeofence
<1>13. QED
  BY <1>0, <1>00, <1>12 DEF Shapes

-------------------------------------------------------------------------------
(* What each replicated type holds, from the operations accounted for *)

\* Room membership: every join's tag, and the tags every leave retired.
MembersFrom(S) ==
  [q \in Rooms |->
     [adds |-> {<<o.payload.client, o.payload.tag>> :
                  o \in {x \in S : x.type = "membership_add" /\ x.payload.room = q}},
      removes |-> UNION {o.payload.tags :
                  o \in {x \in S : x.type = "membership_remove" /\ x.payload.room = q}}]]

MembersAccounted ==
  /\ membership = [r \in Regions |-> MembersFrom(seen[r])]
  /\ \A r \in Regions : Pulled(r) =>
       rounds[r].snap.membership = MembersFrom(rounds[r].snap.seen)

\* A leave retires the tags of exactly the joins of its client and room that
\* its issuer knew.
LeavesKnow ==
  \A o \in ops : o.type = "membership_remove" =>
    /\ o.payload.tags \subseteq o.past
    /\ \A j \in ops :
         j.id \in o.payload.tags <=>
           /\ j.id \in o.past
           /\ j.type = "membership_add"
           /\ j.payload.room = o.payload.room
           /\ j.payload.client = o.payload.client

LEMMA MembersGrow ==
  ASSUME NEW S, NEW o
  PROVE  /\ o.type = "membership_add" /\ o.payload.room \in Rooms =>
              MembersFrom(S \cup {o}) =
                [MembersFrom(S) EXCEPT ![o.payload.room] =
                   OrAdd(@, o.payload.client, o.payload.tag)]
         /\ o.type = "membership_remove" /\ o.payload.room \in Rooms =>
              MembersFrom(S \cup {o}) =
                [MembersFrom(S) EXCEPT ![o.payload.room] = OrApplyRemove(@, o.payload.tags)]
         /\ o.type \notin {"membership_add", "membership_remove"} =>
              MembersFrom(S \cup {o}) = MembersFrom(S)
<1> DEFINE A(T, q) == {<<x.payload.client, x.payload.tag>> :
                         x \in {y \in T : y.type = "membership_add" /\ y.payload.room = q}}
           R(T, q) == UNION {x.payload.tags :
                         x \in {y \in T : y.type = "membership_remove" /\ y.payload.room = q}}
           T0 == S \cup {o}
<1>0. \A T : MembersFrom(T) = [q \in Rooms |-> [adds |-> A(T, q), removes |-> R(T, q)]]
  BY DEF MembersFrom
<1>1. ASSUME o.type = "membership_add", NEW q
      PROVE  /\ q = o.payload.room => A(T0, q) = A(S, q) \cup {<<o.payload.client, o.payload.tag>>}
             /\ q # o.payload.room => A(T0, q) = A(S, q)
  BY <1>1
<1>2. ASSUME o.type # "membership_add", NEW q PROVE A(T0, q) = A(S, q)
  BY <1>2
<1>3. ASSUME o.type = "membership_remove", NEW q
      PROVE  /\ q = o.payload.room => R(T0, q) = R(S, q) \cup o.payload.tags
             /\ q # o.payload.room => R(T0, q) = R(S, q)
  BY <1>3
<1>4. ASSUME o.type # "membership_remove", NEW q PROVE R(T0, q) = R(S, q)
  BY <1>4
<1> HIDE DEF A, R
<1>5. ASSUME o.type = "membership_add", o.payload.room \in Rooms
      PROVE  MembersFrom(T0) = [MembersFrom(S) EXCEPT ![o.payload.room] =
                                  OrAdd(@, o.payload.client, o.payload.tag)]
  BY <1>0, <1>1, <1>4, <1>5 DEF OrAdd
<1>6. ASSUME o.type = "membership_remove", o.payload.room \in Rooms
      PROVE  MembersFrom(T0) = [MembersFrom(S) EXCEPT ![o.payload.room] =
                                  OrApplyRemove(@, o.payload.tags)]
  BY <1>0, <1>2, <1>3, <1>6 DEF OrApplyRemove
<1>7. ASSUME o.type \notin {"membership_add", "membership_remove"}
      PROVE  MembersFrom(T0) = MembersFrom(S)
  BY <1>0, <1>2, <1>4, <1>7
<1>8. QED
  BY <1>5, <1>6, <1>7

LEMMA MembersMerge ==
  ASSUME NEW S, NEW T
  PROVE  MembersFrom(S \cup T) =
           [q \in Rooms |-> OrMerge(MembersFrom(S)[q], MembersFrom(T)[q])]
<1>1. ASSUME NEW q \in Rooms
      PROVE  MembersFrom(S \cup T)[q] = OrMerge(MembersFrom(S)[q], MembersFrom(T)[q])
  BY DEF MembersFrom, OrMerge
<1>2. QED
  BY <1>1 DEF MembersFrom

\* Region p's membership after it accounts for S as well.
LEMMA MembersStep ==
  ASSUME Accounted, MembersAccounted, NEW p \in Regions, NEW S,
         UNCHANGED deployment,
         seen' = [seen EXCEPT ![p] = @ \cup S],
         membership' = [membership EXCEPT ![p] = MembersFrom(seen[p] \cup S)],
         \A x \in Regions : Pulled(x)' => Pulled(x) /\ rounds'[x] = rounds[x]
  PROVE  MembersAccounted'
<1>1. Regions' = Regions
  BY DEF Regions
<1>2. membership' = [r \in Regions |-> MembersFrom(seen'[r])]
  BY DEF MembersAccounted, Accounted
<1>3. QED
  BY <1>1, <1>2 DEF MembersAccounted

LEMMA MembersNext ==
  ASSUME Accounted, Shapes, MembersAccounted, [Next]_vars
  PROVE  MembersAccounted'
<1>a. ASSUME UNCHANGED <<deployment, membership, seen, rounds>> PROVE MembersAccounted'
  BY <1>a DEF MembersAccounted, Pulled, Regions
<1>b. ASSUME NEW r \in Regions, NEW type, NEW payload, IssuesOf(r, type, payload),
             type \notin {"membership_add", "membership_remove"}, membership' = membership
      PROVE  MembersAccounted'
  <2>1. PICK o : IssuesOnly(r, o) /\ o.type = type
    BY <1>b DEF IssuesOf
  <2>2. MembersFrom(seen[r] \cup {o}) = MembersFrom(seen[r])
    BY <1>b, <2>1, MembersGrow
  <2>3. membership' = [membership EXCEPT ![r] = MembersFrom(seen[r] \cup {o})]
    BY <1>b, <2>2 DEF MembersAccounted
  <2>4. /\ seen' = [seen EXCEPT ![r] = @ \cup {o}]
        /\ UNCHANGED <<deployment, rounds>>
    BY <2>1, Issuing DEF IssuesOnly
  <2>5. QED
    BY <2>3, <2>4, MembersStep DEF Pulled
<1>1. ASSUME NEW r \in Regions, NEW c, NEW q \in Rooms, JoinRoom(r, c, q) PROVE MembersAccounted'
  <2>1. PICK o : IssuesOnly(r, o) /\ o.type = "membership_add" /\ o.payload = JoinPayload(r, c, q)
    BY <1>1, IssuingSteps DEF IssuesOf
  <2>2. membership' = [membership EXCEPT ![r][q] = OrAdd(@, c, NextId(r))]
    BY <1>1 DEF JoinRoom
  <2>3. o.payload.room = q /\ o.payload.client = c /\ o.payload.tag = NextId(r)
    BY <2>1 DEF JoinPayload
  <2>4. MembersFrom(seen[r] \cup {o}) = [MembersFrom(seen[r]) EXCEPT ![q] = OrAdd(@, c, NextId(r))]
    <3>1. MembersFrom(seen[r] \cup {o}) =
            [MembersFrom(seen[r]) EXCEPT ![o.payload.room] =
               OrAdd(@, o.payload.client, o.payload.tag)]
      BY <2>1, <2>3, MembersGrow
    <3>2. QED
      BY <2>3, <3>1
  <2>5. membership' = [membership EXCEPT ![r] = MembersFrom(seen[r] \cup {o})]
    BY <2>2, <2>4 DEF MembersAccounted
  <2>6. /\ seen' = [seen EXCEPT ![r] = @ \cup {o}]
        /\ UNCHANGED <<deployment, rounds>>
    BY <2>1, Issuing DEF IssuesOnly
  <2>7. QED
    BY <2>5, <2>6, MembersStep DEF Pulled
<1>2. ASSUME NEW r \in Regions, NEW c, NEW q \in Rooms, LeaveRoom(r, c, q) PROVE MembersAccounted'
  <2>1. PICK o : IssuesOnly(r, o) /\ o.type = "membership_remove" /\ o.payload = LeavePayload(r, c, q)
    BY <1>2, IssuingSteps DEF IssuesOf
  <2> DEFINE tags == TagsOf(membership[r][q], c)
  <2>2. membership' = [membership EXCEPT ![r][q] = OrApplyRemove(@, tags)]
    BY <1>2 DEF LeaveRoom, OrRemove
  <2>3. o.payload.room = q /\ o.payload.tags = tags
    BY <2>1 DEF LeavePayload
  <2> HIDE DEF tags
  <2>4. MembersFrom(seen[r] \cup {o}) = [MembersFrom(seen[r]) EXCEPT ![q] = OrApplyRemove(@, tags)]
    BY <2>1, <2>3, MembersGrow
  <2>5. membership' = [membership EXCEPT ![r] = MembersFrom(seen[r] \cup {o})]
    BY <2>2, <2>4 DEF MembersAccounted
  <2>6. /\ seen' = [seen EXCEPT ![r] = @ \cup {o}]
        /\ UNCHANGED <<deployment, rounds>>
    BY <2>1, Issuing DEF IssuesOnly
  <2>7. QED
    BY <2>5, <2>6, MembersStep DEF Pulled
<1>3. ASSUME NEW r \in Regions, NEW q, NEW left, Broadcast(r, q, left) PROVE MembersAccounted'
  <2>1. \E payload : IssuesOf(r, "message_append", payload)
    BY <1>3, IssuingSteps
  <2>2. membership' = membership
    BY <1>3 DEF Broadcast
  <2>3. QED
    BY <2>1, <2>2, <1>b
<1>4. ASSUME NEW r \in Regions, NEW q, NEW id, Retract(r, q, id) PROVE MembersAccounted'
  <2>1. IssuesOf(r, "message_remove", [room |-> q, message |-> id])
    BY <1>4, IssuingSteps
  <2>2. membership' = membership
    BY <1>4 DEF Retract
  <2>3. QED
    BY <2>1, <2>2, <1>b
<1>5. ASSUME NEW r \in Regions, NEW k, SaveSession(r, k) \/ SetGlobalConfig(r, k)
      PROVE  MembersAccounted'
  <2>1. \E type : type \in {"session_update", "global_config"} /\ IssuesOf(r, type, [key |-> k])
    BY <1>5, IssuingSteps
  <2>2. membership' = membership
    BY <1>5 DEF SaveSession, SetGlobalConfig
  <2>3. QED
    BY <2>1, <2>2, <1>b
<1>6. ASSUME NEW r \in Regions, NEW f, NEW type \in {"geofence_upsert", "geofence_remove"},
             EditGeofence(r, f, type)
      PROVE  MembersAccounted'
  <2>1. IssuesOf(r, type, EditPayload(r, f))
    BY <1>6, IssuingSteps
  <2>2. membership' = membership
    BY <1>6 DEF EditGeofence
  <2>3. QED
    BY <2>1, <2>2, <1>b
<1>7. ASSUME NEW p \in Regions, NEW o \in ops, HandlePeerOperation(p, o) PROVE MembersAccounted'
  <2>1. /\ membership' = AppliedMembership(p, o)
        /\ seen' = [seen EXCEPT ![p] = @ \cup {o}]
        /\ UNCHANGED <<deployment, rounds>>
    BY <1>7 DEF HandlePeerOperation
  <2>2. WellFormed(o)
    BY DEF Shapes
  <2>3. membership' = [membership EXCEPT ![p] = MembersFrom(seen[p] \cup {o})]
    <3>1. CASE o.type = "membership_add"
      <4>1. membership' = [membership EXCEPT ![p][o.payload.room] =
                             OrAdd(@, o.payload.client, o.payload.tag)]
        BY <2>1, <3>1 DEF AppliedMembership
      <4>2. MembersFrom(seen[p] \cup {o}) =
              [MembersFrom(seen[p]) EXCEPT ![o.payload.room] =
                 OrAdd(@, o.payload.client, o.payload.tag)]
        BY <2>2, <3>1, MembersGrow DEF WellFormed
      <4>3. QED
        BY <4>1, <4>2 DEF MembersAccounted
    <3>2. CASE o.type = "membership_remove"
      <4>1. membership' = [membership EXCEPT ![p][o.payload.room] =
                             OrApplyRemove(@, o.payload.tags)]
        BY <2>1, <3>2 DEF AppliedMembership
      <4>2. MembersFrom(seen[p] \cup {o}) =
              [MembersFrom(seen[p]) EXCEPT ![o.payload.room] = OrApplyRemove(@, o.payload.tags)]
        BY <2>2, <3>2, MembersGrow DEF WellFormed
      <4>3. QED
        BY <4>1, <4>2 DEF MembersAccounted
    <3>3. CASE o.type \notin {"membership_add", "membership_remove"}
      <4>1. membership' = membership
        BY <2>1, <3>3 DEF AppliedMembership
      <4>2. MembersFrom(seen[p] \cup {o}) = MembersFrom(seen[p])
        BY <3>3, MembersGrow
      <4>3. QED
        BY <4>1, <4>2 DEF MembersAccounted
    <3>4. QED
      BY <3>1, <3>2, <3>3
  <2>4. QED
    BY <2>1, <2>3, MembersStep DEF Pulled
<1>8. ASSUME NEW r \in Regions, MergeRemoteState(r) PROVE MembersAccounted'
  <2> DEFINE snap == rounds[r].snap
  <2>1. /\ Pulled(r)
        /\ membership' = [membership EXCEPT ![r] =
             [q \in Rooms |-> OrMerge(membership[r][q], snap.membership[q])]]
        /\ seen' = [seen EXCEPT ![r] = @ \cup snap.seen]
        /\ rounds' = [rounds EXCEPT ![r] = Nobody]
        /\ UNCHANGED deployment
    BY <1>8 DEF MergeRemoteState, Pulled
  <2>2. membership[r] = MembersFrom(seen[r]) /\ snap.membership = MembersFrom(snap.seen)
    BY <2>1 DEF MembersAccounted
  <2> HIDE DEF snap
  <2>3. membership' = [membership EXCEPT ![r] = MembersFrom(seen[r] \cup snap.seen)]
    <3>1. MembersFrom(seen[r] \cup snap.seen) =
            [q \in Rooms |-> OrMerge(MembersFrom(seen[r])[q], MembersFrom(snap.seen)[q])]
      BY MembersMerge
    <3>2. QED
      BY <2>1, <2>2, <3>1
  <2>4. \A x \in Regions : Pulled(x)' => Pulled(x) /\ rounds'[x] = rounds[x]
    BY <2>1 DEF Accounted, Pulled
  <2>5. QED
    BY <2>1, <2>3, <2>4, MembersStep
<1>9. ASSUME NEW r \in Regions, NEW p \in Regions, Probe(r, p) PROVE MembersAccounted'
  <2>1. /\ UNCHANGED <<deployment, membership, seen>>
        /\ rounds' = [rounds EXCEPT ![r] = [peer |-> p, snap |-> NoSnapshot]]
    BY <1>9 DEF Probe, data
  <2>2. \A x \in Regions : Pulled(x)' => Pulled(x) /\ rounds'[x] = rounds[x]
    BY <2>1 DEF Accounted, Pulled
  <2>3. QED
    BY <2>1, <2>2 DEF MembersAccounted, Regions
<1>10. ASSUME NEW r \in Regions, FetchState(r) PROVE MembersAccounted'
  <2>1. UNCHANGED <<deployment, membership, seen>>
    BY <1>10 DEF FetchState, data
  <2>2. /\ rounds[r].peer \in Regions
        /\ rounds'[r].snap = Snapshot(rounds[r].peer)
        /\ \A x \in Regions : x # r => rounds'[x] = rounds[x]
    BY <1>10, FetchedSnapshot
  <2>3. rounds'[r].snap.membership = MembersFrom(rounds'[r].snap.seen)
    BY <2>2 DEF Snapshot, MembersAccounted
  <2>4. QED
    BY <2>1, <2>2, <2>3 DEF MembersAccounted, Regions, Pulled
<1>11. ASSUME NEW r \in Regions, FetchFails(r) PROVE MembersAccounted'
  <2>1. UNCHANGED <<deployment, membership, seen>> /\ rounds' = [rounds EXCEPT ![r] = Nobody]
    BY <1>11 DEF FetchFails, data
  <2>2. \A x \in Regions : Pulled(x)' => Pulled(x) /\ rounds'[x] = rounds[x]
    BY <2>1 DEF Accounted, Pulled
  <2>3. QED
    BY <2>1, <2>2 DEF MembersAccounted, Regions
<1>12. ASSUME NEW r, NEW p,
              \/ ProbeFails(r, p) \/ MarkRegionFailed(r, p) \/ MarkRegionHealthy(r, p) \/ Tick(r)
       PROVE  MembersAccounted'
  BY <1>12, <1>a DEF ProbeFails, MarkRegionFailed, MarkRegionHealthy, Tick, data
<1>13. ASSUME NEW w, NEW p, NEW ack, Settle(w, p, ack) \/ Decide(w) PROVE MembersAccounted'
  BY <1>13, <1>a DEF Settle, Decide, data
<1>14. CASE UNCHANGED vars
  BY <1>14, <1>a DEF vars, data
<1>15. QED
  BY <1>1, <1>2, <1>3, <1>4, <1>5, <1>6, <1>7, <1>8, <1>9, <1>10, <1>11, <1>12, <1>13, <1>14
     DEF Next, SyncGeofence, RemoveGeofence

\* The joins of c in q among S.
JoinsIn(S, c, q) ==
  {o \in S : o.type = "membership_add" /\ o.payload.room = q /\ o.payload.client = c}

\* The tags an OR-set records for a client are those of the joins it holds.
LEMMA TagsOfJoins ==
  ASSUME NEW S, NEW q \in Rooms, NEW c
  PROVE  TagsOf(MembersFrom(S)[q], c) = {o.payload.tag : o \in JoinsIn(S, c, q)}
<1> DEFINE J == {x \in S : x.type = "membership_add" /\ x.payload.room = q}
           Jc == JoinsIn(S, c, q)
           s == MembersFrom(S)[q]
<1>0. s.adds = {<<o.payload.client, o.payload.tag>> : o \in J}
  BY DEF MembersFrom
<1> HIDE DEF s
<1>1. ASSUME NEW t \in TagsOf(s, c) PROVE t \in {o.payload.tag : o \in Jc}
  <2>1. PICK p \in s.adds : p[1] = c /\ t = p[2]
    BY DEF TagsOf
  <2>2. PICK o \in J : p = <<o.payload.client, o.payload.tag>>
    BY <1>0
  <2>3. QED
    BY <2>1, <2>2 DEF JoinsIn
<1>2. ASSUME NEW o \in Jc PROVE o.payload.tag \in TagsOf(s, c)
  <2> DEFINE p == <<o.payload.client, o.payload.tag>>
  <2>1. p \in s.adds /\ p[1] = c /\ p[2] = o.payload.tag
    BY <1>0 DEF JoinsIn
  <2> HIDE DEF p
  <2>2. QED
    BY <2>1 DEF TagsOf
<1>3. QED
  BY <1>1, <1>2 DEF s

LEMMA LeavesKnowNext ==
  ASSUME Accounted, OpsNumbered, Shapes, MembersAccounted, LeavesKnow, [Next]_vars
  PROVE  LeavesKnow'
<1>1. CASE ops' = ops
  BY <1>1 DEF LeavesKnow
<1>2. ASSUME NEW r \in Regions, NEW type, NEW payload, Says(r, type, payload),
             IssuesOf(r, type, payload)
      PROVE  LeavesKnow'
  <2>1. PICK o : /\ IssuesOnly(r, o) /\ o.id = NextId(r) /\ o.type = type /\ o.payload = payload
                 /\ o.past = {x.id : x \in seen[r]}
    BY <1>2 DEF IssuesOf
  <2>2. ops' = ops \cup {o}
    BY <2>1, Issuing DEF IssuesOnly
  <2>3. \A x \in ops : x.id # o.id
    BY <2>1, FreshId
  <2>4. seen[r] \subseteq ops
    BY DEF Accounted
  <2>5. o.id \notin o.past
    BY <2>1, <2>3, <2>4
  <2>6. \* the leaves known before: the new operation is in nobody's past
        ASSUME NEW x \in ops, x.type = "membership_remove", NEW j \in ops'
        PROVE  /\ x.payload.tags \subseteq x.past
               /\ j.id \in x.payload.tags <=>
                    /\ j.id \in x.past
                    /\ j.type = "membership_add"
                    /\ j.payload.room = x.payload.room
                    /\ j.payload.client = x.payload.client
    <3>1. x.payload.tags \subseteq x.past /\ x.past \subseteq {y.id : y \in ops}
      BY <2>6 DEF LeavesKnow, OpsNumbered
    <3>2. CASE j = o
      BY <2>3, <3>1, <3>2
    <3>3. CASE j \in ops
      BY <2>6, <3>1, <3>3 DEF LeavesKnow
    <3>4. QED
      BY <2>2, <2>6, <3>2, <3>3
  <2>7. ASSUME o.type = "membership_remove", NEW j \in ops'
        PROVE  /\ o.payload.tags \subseteq o.past
               /\ j.id \in o.payload.tags <=>
                    /\ j.id \in o.past
                    /\ j.type = "membership_add"
                    /\ j.payload.room = o.payload.room
                    /\ j.payload.client = o.payload.client
    <3>1. PICK c, q : q \in Rooms /\ payload = LeavePayload(r, c, q)
      BY <1>2, <2>1, <2>7 DEF Says
    <3>2. /\ o.payload.room = q /\ o.payload.client = c
          /\ o.payload.tags = TagsOf(membership[r][q], c)
      BY <2>1, <3>1 DEF LeavePayload
    <3> DEFINE joins == JoinsIn(seen[r], c, q)
    <3>3. TagsOf(membership[r][q], c) = {x.payload.tag : x \in joins}
      <4>1. membership[r] = MembersFrom(seen[r])
        BY DEF MembersAccounted
      <4>2. QED
        BY <3>1, <4>1, TagsOfJoins
    <3>4. \A x \in joins : x.payload.tag = x.id
      BY <2>4 DEF Shapes, WellFormed, JoinsIn
    <3>5. o.payload.tags = {x.id : x \in joins}
      BY <3>2, <3>3, <3>4
    <3>6. o.payload.tags \subseteq o.past
      BY <2>1, <3>5 DEF JoinsIn
    <3>7. ASSUME j \in ops
          PROVE  j.id \in o.payload.tags <=> j \in joins
      BY <2>4, <3>5, <3>7 DEF OpsNumbered, JoinsIn
    <3>8. ASSUME j \in ops
          PROVE  j.id \in o.past <=> j \in seen[r]
      BY <2>1, <2>4, <3>8 DEF OpsNumbered
    <3>9. CASE j \in ops
      BY <3>2, <3>6, <3>7, <3>8, <3>9 DEF JoinsIn
    <3>10. CASE j = o
      BY <2>5, <3>6, <3>10
    <3>11. QED
      BY <2>2, <2>7, <3>9, <3>10
  <2>8. QED
    BY <2>2, <2>6, <2>7 DEF LeavesKnow
<1>3. QED
  BY <1>1, <1>2, OpsStep

\* The invariant membership rests on.
MembershipInv == Accounted /\ OpsNumbered /\ Shapes /\ MembersAccounted /\ LeavesKnow

LEMMA MembershipInvInit == Init => MembershipInv
<1> SUFFICES ASSUME Init PROVE MembershipInv
  OBVIOUS
<1>1. Accounted
  BY AccountedInit
<1>2. ops = {} /\ \A r \in Regions : seen[r] = {} /\ rounds[r] = Nobody
  BY DEF Init
<1>3. OpsNumbered /\ LeavesKnow
  BY <1>2 DEF OpsNumbered, LeavesKnow
<1>4. Shapes
  BY <1>2 DEF Init, Shapes, ZeroReading, Reading
<1>5. MembersFrom({}) = [q \in Rooms |-> EmptyOrSet]
  BY DEF MembersFrom, EmptyOrSet
<1>6. MembersAccounted
  BY <1>2, <1>5 DEF Init, MembersAccounted, Pulled
<1>7. QED
  BY <1>1, <1>3, <1>4, <1>6 DEF MembershipInv

LEMMA MembershipInvNext == MembershipInv /\ [Next]_vars => MembershipInv'
BY AccountedNext, OpsNumberedNext, ShapesNext, MembersNext, LeavesKnowNext DEF MembershipInv

LEMMA FreshJoinWinsHolds == MembershipInv => FreshJoinWins
<1> SUFFICES ASSUME MembershipInv, NEW r \in Regions, NEW c \in Clients, NEW q \in Rooms
             PROVE  OrHas(membership[r][q], c) <=>
                      \E j \in JoinsSeen(r, c, q) :
                        \A o \in LeavesSeen(r, c, q) : j.id \notin o.past
  BY DEF FreshJoinWins
<1>1. seen[r] \subseteq ops
  BY DEF MembershipInv, Accounted
<1>2. membership[r][q] =
        [adds |-> {<<o.payload.client, o.payload.tag>> :
                     o \in {x \in seen[r] : x.type = "membership_add" /\ x.payload.room = q}},
         removes |-> UNION {o.payload.tags :
                     o \in {x \in seen[r] : x.type = "membership_remove" /\ x.payload.room = q}}]
  BY DEF MembershipInv, MembersAccounted, MembersFrom
<1>3. \A j \in JoinsSeen(r, c, q) : j.payload.tag = j.id /\ j \in ops
  BY <1>1 DEF MembershipInv, Shapes, WellFormed, JoinsSeen
<1>4. TagsOf(membership[r][q], c) = {j.payload.tag : j \in JoinsSeen(r, c, q)}
  <2>1. membership[r] = MembersFrom(seen[r])
    BY DEF MembershipInv, MembersAccounted
  <2>2. JoinsSeen(r, c, q) = JoinsIn(seen[r], c, q)
    BY DEF JoinsSeen, JoinsIn
  <2>3. TagsOf(MembersFrom(seen[r])[q], c) = {j.payload.tag : j \in JoinsIn(seen[r], c, q)}
    BY TagsOfJoins
  <2>4. QED
    BY <2>1, <2>2, <2>3, Zenon
<1>5. OrHas(membership[r][q], c) <=>
        \E j \in JoinsSeen(r, c, q) : j.payload.tag \notin membership[r][q].removes
  BY <1>4 DEF OrHas
<1>6. ASSUME NEW j \in JoinsSeen(r, c, q)
      PROVE  j.id \in membership[r][q].removes <=> \E o \in LeavesSeen(r, c, q) : j.id \in o.past
  <2>1. j.id \in membership[r][q].removes <=>
          \E o \in seen[r] : /\ o.type = "membership_remove" /\ o.payload.room = q
                             /\ j.id \in o.payload.tags
    BY <1>2
  <2>2. ASSUME NEW o \in seen[r], o.type = "membership_remove", o.payload.room = q
        PROVE  j.id \in o.payload.tags <=> o.payload.client = c /\ j.id \in o.past
    <3>1. o \in ops /\ j \in ops
      BY <1>1, <1>3
    <3>2. j.type = "membership_add" /\ j.payload.room = q /\ j.payload.client = c
      BY DEF JoinsSeen
    <3>3. QED
      BY <2>2, <3>1, <3>2 DEF MembershipInv, LeavesKnow
  <2>3. QED
    BY <2>1, <2>2 DEF LeavesSeen
<1>7. QED
  BY <1>3, <1>5, <1>6

\* "A stale leave can never evict a fresh join", for any regions, rooms and
\* clients, whatever the transport does: a region shows a client exactly when it
\* knows a join that no leave it knows had observed.
THEOREM MembershipSafe == Spec => []FreshJoinWins
BY MembershipInvInit, MembershipInvNext, FreshJoinWinsHolds, PTL DEF Spec

\* Messages, while none has been retracted: a node for every append.
MessagesFrom(S) ==
  [q \in Rooms |->
     {[id |-> o.payload.message, originLeft |-> o.payload.originLeft, tombstoned |-> FALSE] :
        o \in {x \in S : x.type = "message_append" /\ x.payload.room = q}}]

NoRetraction == \A o \in ops : o.type # "message_remove"

MessagesAccounted ==
  NoRetraction =>
    /\ sequence = [r \in Regions |-> MessagesFrom(seen[r])]
    /\ \A r \in Regions : Pulled(r) =>
         rounds[r].snap.sequence = MessagesFrom(rounds[r].snap.seen)

LEMMA MessagesGrow ==
  ASSUME NEW S, NEW o,
         \A x \in S : /\ x.type = "message_append" /\ o.type = "message_append"
                      /\ x.payload.message = o.payload.message
                      => x = o
  PROVE  /\ o.type = "message_append" /\ o.payload.room \in Rooms =>
              MessagesFrom(S \cup {o}) =
                [MessagesFrom(S) EXCEPT ![o.payload.room] =
                   RgaInsert(@, o.payload.message, o.payload.originLeft)]
         /\ o.type # "message_append" => MessagesFrom(S \cup {o}) = MessagesFrom(S)
<1> DEFINE Node(x) == [id |-> x.payload.message, originLeft |-> x.payload.originLeft,
                       tombstoned |-> FALSE]
           M(T, q) == {Node(x) : x \in {y \in T : y.type = "message_append" /\ y.payload.room = q}}
           T0 == S \cup {o}
<1>0. \A T : MessagesFrom(T) = [q \in Rooms |-> M(T, q)]
  BY DEF MessagesFrom
<1>1. ASSUME o.type # "message_append", NEW q PROVE M(T0, q) = M(S, q)
  BY <1>1
<1>2. ASSUME o.type = "message_append", NEW q, q # o.payload.room PROVE M(T0, q) = M(S, q)
  BY <1>2
<1>3. ASSUME o.type = "message_append", NEW q, q = o.payload.room
      PROVE  M(T0, q) = RgaInsert(M(S, q), o.payload.message, o.payload.originLeft)
  <2>1. M(T0, q) = M(S, q) \cup {Node(o)}
    BY <1>3
  <2>2. CASE \E n \in M(S, q) : n.id = o.payload.message
    <3>1. PICK x \in S : /\ x.type = "message_append" /\ x.payload.room = q
                         /\ Node(x).id = o.payload.message
      BY <2>2
    <3>2. x = o
      BY <1>3, <3>1
    <3>3. Node(o) \in M(S, q)
      BY <3>1, <3>2
    <3> HIDE DEF M, Node
    <3>4. M(T0, q) = M(S, q)
      BY <2>1, <3>3
    <3>5. QED
      BY <2>2, <3>4 DEF RgaInsert
  <2>3. CASE ~\E n \in M(S, q) : n.id = o.payload.message
    BY <2>1, <2>3 DEF RgaInsert
  <2>4. QED
    BY <2>2, <2>3
<1> HIDE DEF M
<1>4. ASSUME o.type # "message_append" PROVE MessagesFrom(T0) = MessagesFrom(S)
  BY <1>0, <1>1, <1>4
<1>5. ASSUME o.type = "message_append", o.payload.room \in Rooms
      PROVE  MessagesFrom(T0) = [MessagesFrom(S) EXCEPT ![o.payload.room] =
                                   RgaInsert(@, o.payload.message, o.payload.originLeft)]
  BY <1>0, <1>2, <1>3, <1>5
<1>6. QED
  BY <1>4, <1>5

LEMMA MessagesMerge ==
  ASSUME NEW S, NEW T
  PROVE  MessagesFrom(S \cup T) =
           [q \in Rooms |-> RgaMerge(MessagesFrom(S)[q], MessagesFrom(T)[q])]
<1>1. ASSUME NEW q \in Rooms
      PROVE  MessagesFrom(S \cup T)[q] = RgaMerge(MessagesFrom(S)[q], MessagesFrom(T)[q])
  <2> DEFINE A == MessagesFrom(S)[q]
             B == MessagesFrom(T)[q]
  <2>1. MessagesFrom(S \cup T)[q] = A \cup B
    BY DEF MessagesFrom
  <2>2. \A n \in A \cup B : n.tombstoned = FALSE
    BY DEF MessagesFrom
  <2> HIDE DEF A, B
  <2>3. RgaMerge(A, B) = A \cup B
    BY <2>2 DEF RgaMerge
  <2>4. QED
    BY <2>1, <2>3 DEF A, B
<1>2. QED
  BY <1>1 DEF MessagesFrom

\* Region p's messages after it accounts for S as well.
LEMMA MessagesStep ==
  ASSUME Accounted, MessagesAccounted, NEW p \in Regions, NEW S,
         UNCHANGED deployment, ops \subseteq ops',
         seen' = [seen EXCEPT ![p] = @ \cup S],
         NoRetraction' => sequence' = [sequence EXCEPT ![p] = MessagesFrom(seen[p] \cup S)],
         \A x \in Regions : Pulled(x)' => Pulled(x) /\ rounds'[x] = rounds[x]
  PROVE  MessagesAccounted'
<1> SUFFICES ASSUME NoRetraction'
             PROVE  /\ sequence' = [r \in Regions |-> MessagesFrom(seen'[r])]
                    /\ \A r \in Regions : Pulled(r)' =>
                         rounds'[r].snap.sequence = MessagesFrom(rounds'[r].snap.seen)
  BY DEF MessagesAccounted, Regions
<1>1. NoRetraction
  BY DEF NoRetraction
<1>2. QED
  BY <1>1 DEF MessagesAccounted, Accounted

LEMMA MessagesNext ==
  ASSUME Accounted, OpsNumbered, MessagesNumbered, Shapes, MessagesAccounted, [Next]_vars,
         MessagesNumbered'
  PROVE  MessagesAccounted'
<1>0. ops \subseteq ops' /\ \A r \in Regions : seen[r] \subseteq ops
  BY SeenGrows DEF Accounted
<1>a. ASSUME UNCHANGED <<deployment, sequence, seen, rounds, ops>> PROVE MessagesAccounted'
  BY <1>a DEF MessagesAccounted, Pulled, Regions, NoRetraction
<1>b. ASSUME NEW r \in Regions, NEW type, NEW payload, IssuesOf(r, type, payload),
             type # "message_append", sequence' = sequence
      PROVE  MessagesAccounted'
  <2>1. PICK o : IssuesOnly(r, o) /\ o.type = type
    BY <1>b DEF IssuesOf
  <2>2. MessagesFrom(seen[r] \cup {o}) = MessagesFrom(seen[r])
    BY <1>b, <2>1, MessagesGrow
  <2>3. NoRetraction' => sequence' = [sequence EXCEPT ![r] = MessagesFrom(seen[r] \cup {o})]
    BY <1>0, <1>b, <2>2 DEF MessagesAccounted, NoRetraction
  <2>4. /\ seen' = [seen EXCEPT ![r] = @ \cup {o}]
        /\ UNCHANGED <<deployment, rounds>>
    BY <2>1, Issuing DEF IssuesOnly
  <2>5. QED
    BY <1>0, <2>3, <2>4, MessagesStep DEF Pulled
<1>1. ASSUME NEW r \in Regions, NEW c, NEW q, JoinRoom(r, c, q) \/ LeaveRoom(r, c, q)
      PROVE  MessagesAccounted'
  <2>1. \E type, payload : type # "message_append" /\ IssuesOf(r, type, payload)
    <3>1. IssuesOf(r, "membership_add", JoinPayload(r, c, q))
            \/ IssuesOf(r, "membership_remove", LeavePayload(r, c, q))
      BY <1>1, IssuingSteps
    <3>2. QED
      BY <3>1
  <2>2. sequence' = sequence
    BY <1>1 DEF JoinRoom, LeaveRoom
  <2>3. QED
    BY <2>1, <2>2, <1>b
<1>2. ASSUME NEW r \in Regions, NEW q \in Rooms, NEW left, Broadcast(r, q, left)
      PROVE  MessagesAccounted'
  <2>1. PICK payload : /\ IsAppendPayload(r, q, left, payload)
                       /\ IssuesOf(r, "message_append", payload)
    BY <1>2, IssuingSteps
  <2>2. PICK o : IssuesOnly(r, o) /\ o.type = "message_append" /\ o.payload = payload
    BY <2>1 DEF IssuesOf
  <2>3. /\ seen' = [seen EXCEPT ![r] = @ \cup {o}]
        /\ ops' = ops \cup {o}
        /\ UNCHANGED <<deployment, rounds>>
    BY <2>2, Issuing DEF IssuesOnly
  <2>4. sequence' = [sequence EXCEPT ![r][q] = RgaInsert(@, MessageId(r), left)]
    BY <1>2 DEF Broadcast, MessageId
  <2>5. o.payload.room = q /\ o.payload.message = MessageId(r) /\ o.payload.originLeft = left
    BY <2>1, <2>2 DEF IsAppendPayload
  <2>6. \A x \in seen[r] : /\ x.type = "message_append" /\ o.type = "message_append"
                           /\ x.payload.message = o.payload.message
                           => x = o
    BY <1>0, <2>3 DEF MessagesNumbered
  <2>7. MessagesFrom(seen[r] \cup {o}) =
          [MessagesFrom(seen[r]) EXCEPT ![o.payload.room] =
             RgaInsert(@, o.payload.message, o.payload.originLeft)]
    BY <2>2, <2>5, <2>6, MessagesGrow
  <2>8. NoRetraction' => sequence' = [sequence EXCEPT ![r] = MessagesFrom(seen[r] \cup {o})]
    <3> SUFFICES ASSUME NoRetraction'
                 PROVE  sequence' = [sequence EXCEPT ![r] = MessagesFrom(seen[r] \cup {o})]
      OBVIOUS
    <3>1. sequence = [x \in Regions |-> MessagesFrom(seen[x])]
      BY <1>0 DEF MessagesAccounted, NoRetraction
    <3>2. QED
      BY <2>4, <2>5, <2>7, <3>1
  <2>9. QED
    BY <1>0, <2>3, <2>8, MessagesStep DEF Pulled
<1>3. ASSUME NEW r \in Regions, NEW q, NEW id, Retract(r, q, id) PROVE MessagesAccounted'
  <2>0. IssuesOf(r, "message_remove", [room |-> q, message |-> id])
    BY <1>3, IssuingSteps
  <2>1. PICK o : IssuesOnly(r, o) /\ o.type = "message_remove"
    BY <2>0 DEF IssuesOf
  <2>2. o \in ops'
    BY <2>1, Issuing DEF IssuesOnly
  <2>3. QED
    BY <2>1, <2>2 DEF MessagesAccounted, NoRetraction
<1>4. ASSUME NEW r \in Regions, NEW k, SaveSession(r, k) \/ SetGlobalConfig(r, k)
      PROVE  MessagesAccounted'
  <2>1. \E type : type # "message_append" /\ IssuesOf(r, type, [key |-> k])
    BY <1>4, IssuingSteps
  <2>2. sequence' = sequence
    BY <1>4 DEF SaveSession, SetGlobalConfig
  <2>3. QED
    BY <2>1, <2>2, <1>b
<1>5. ASSUME NEW r \in Regions, NEW f, NEW type \in {"geofence_upsert", "geofence_remove"},
             EditGeofence(r, f, type)
      PROVE  MessagesAccounted'
  <2>1. IssuesOf(r, type, EditPayload(r, f))
    BY <1>5, IssuingSteps
  <2>2. sequence' = sequence
    BY <1>5 DEF EditGeofence
  <2>3. QED
    BY <2>1, <2>2, <1>b
<1>6. ASSUME NEW p \in Regions, NEW o \in ops, HandlePeerOperation(p, o) PROVE MessagesAccounted'
  <2>1. /\ sequence' = AppliedSequence(p, o)
        /\ seen' = [seen EXCEPT ![p] = @ \cup {o}]
        /\ UNCHANGED <<deployment, rounds, ops>>
    BY <1>6 DEF HandlePeerOperation
  <2>2. WellFormed(o)
    BY DEF Shapes
  <2>3. \A x \in seen[p] : /\ x.type = "message_append" /\ o.type = "message_append"
                           /\ x.payload.message = o.payload.message
                           => x = o
    BY <1>0 DEF MessagesNumbered
  <2>4. ASSUME NoRetraction
        PROVE  sequence' = [sequence EXCEPT ![p] = MessagesFrom(seen[p] \cup {o})]
    <3>0. sequence = [x \in Regions |-> MessagesFrom(seen[x])] /\ o.type # "message_remove"
      BY <2>4 DEF MessagesAccounted, NoRetraction
    <3>1. CASE o.type = "message_append"
      <4>1. sequence' = [sequence EXCEPT ![p][o.payload.room] =
                           RgaInsert(@, o.payload.message, o.payload.originLeft)]
        BY <2>1, <3>1 DEF AppliedSequence
      <4>2. MessagesFrom(seen[p] \cup {o}) =
              [MessagesFrom(seen[p]) EXCEPT ![o.payload.room] =
                 RgaInsert(@, o.payload.message, o.payload.originLeft)]
        BY <2>2, <2>3, <3>1, MessagesGrow DEF WellFormed
      <4>3. QED
        BY <3>0, <4>1, <4>2
    <3>2. CASE o.type # "message_append"
      <4>1. sequence' = sequence
        BY <2>1, <3>0, <3>2 DEF AppliedSequence
      <4>2. MessagesFrom(seen[p] \cup {o}) = MessagesFrom(seen[p])
        BY <2>3, <3>2, MessagesGrow
      <4>3. QED
        BY <3>0, <4>1, <4>2
    <3>3. QED
      BY <3>1, <3>2
  <2>5. NoRetraction' => NoRetraction
    BY <2>1 DEF NoRetraction
  <2>6. QED
    BY <1>0, <2>1, <2>4, <2>5, MessagesStep DEF Pulled
<1>7. ASSUME NEW r \in Regions, MergeRemoteState(r) PROVE MessagesAccounted'
  <2> DEFINE snap == rounds[r].snap
  <2>1. /\ Pulled(r)
        /\ sequence' = [sequence EXCEPT ![r] =
             [q \in Rooms |-> RgaMerge(sequence[r][q], snap.sequence[q])]]
        /\ seen' = [seen EXCEPT ![r] = @ \cup snap.seen]
        /\ rounds' = [rounds EXCEPT ![r] = Nobody]
        /\ UNCHANGED <<deployment, ops>>
    BY <1>7 DEF MergeRemoteState, Pulled
  <2>2. NoRetraction' =>
          /\ NoRetraction
          /\ sequence[r] = MessagesFrom(seen[r]) /\ snap.sequence = MessagesFrom(snap.seen)
    BY <2>1 DEF MessagesAccounted, NoRetraction
  <2> HIDE DEF snap
  <2>3. ASSUME NoRetraction'
        PROVE  sequence' = [sequence EXCEPT ![r] = MessagesFrom(seen[r] \cup snap.seen)]
    <3>1. MessagesFrom(seen[r] \cup snap.seen) =
            [q \in Rooms |-> RgaMerge(MessagesFrom(seen[r])[q], MessagesFrom(snap.seen)[q])]
      BY MessagesMerge
    <3>2. QED
      BY <2>1, <2>2, <2>3, <3>1
  <2>4. \A x \in Regions : Pulled(x)' => Pulled(x) /\ rounds'[x] = rounds[x]
    BY <2>1 DEF Accounted, Pulled
  <2>5. QED
    BY <1>0, <2>1, <2>3, <2>4, MessagesStep
<1>c. ASSUME UNCHANGED <<deployment, sequence, seen, ops>>,
             \A x \in Regions : Pulled(x)' =>
               rounds'[x].snap.sequence = MessagesFrom(rounds'[x].snap.seen) \/ rounds'[x] = rounds[x]
      PROVE  MessagesAccounted'
  BY <1>c DEF MessagesAccounted, Regions, NoRetraction, Pulled
<1>8. ASSUME NEW r \in Regions, NEW p \in Regions, Probe(r, p) PROVE MessagesAccounted'
  <2>1. /\ UNCHANGED <<deployment, sequence, seen, ops>>
        /\ rounds' = [rounds EXCEPT ![r] = [peer |-> p, snap |-> NoSnapshot]]
    BY <1>8 DEF Probe, data
  <2>2. \A x \in Regions : Pulled(x)' => rounds'[x] = rounds[x]
    BY <2>1 DEF Accounted, Pulled
  <2>3. QED
    BY <2>1, <2>2, <1>c
<1>9. ASSUME NEW r \in Regions, FetchState(r) PROVE MessagesAccounted'
  <2>1. UNCHANGED <<deployment, sequence, seen, ops>>
    BY <1>9 DEF FetchState, data
  <2>2. /\ rounds[r].peer \in Regions
        /\ rounds'[r].snap = Snapshot(rounds[r].peer)
        /\ \A x \in Regions : x # r => rounds'[x] = rounds[x]
    BY <1>9, FetchedSnapshot
  <2>3. NoRetraction => rounds'[r].snap.sequence = MessagesFrom(rounds'[r].snap.seen)
    BY <2>2 DEF Snapshot, MessagesAccounted
  <2>4. QED
    BY <2>1, <2>2, <2>3 DEF MessagesAccounted, Regions, Pulled, NoRetraction
<1>10. ASSUME NEW r \in Regions, FetchFails(r) PROVE MessagesAccounted'
  <2>1. UNCHANGED <<deployment, sequence, seen, ops>> /\ rounds' = [rounds EXCEPT ![r] = Nobody]
    BY <1>10 DEF FetchFails, data
  <2>2. \A x \in Regions : Pulled(x)' => rounds'[x] = rounds[x]
    BY <2>1 DEF Accounted, Pulled
  <2>3. QED
    BY <2>1, <2>2, <1>c
<1>11. ASSUME NEW r, NEW p,
              \/ ProbeFails(r, p) \/ MarkRegionFailed(r, p) \/ MarkRegionHealthy(r, p) \/ Tick(r)
       PROVE  MessagesAccounted'
  BY <1>11, <1>a DEF ProbeFails, MarkRegionFailed, MarkRegionHealthy, Tick, data
<1>12. ASSUME NEW w, NEW p, NEW ack, Settle(w, p, ack) \/ Decide(w) PROVE MessagesAccounted'
  BY <1>12, <1>a DEF Settle, Decide, data
<1>13. CASE UNCHANGED vars
  BY <1>13, <1>a DEF vars, data
<1>14. QED
  BY <1>1, <1>2, <1>3, <1>4, <1>5, <1>6, <1>7, <1>8, <1>9, <1>10, <1>11, <1>12, <1>13
     DEF Next, SyncGeofence, RemoveGeofence

\* Geofences: per element, the greatest stamp of the adds and of the removes.
StampsOf(S, type, f) == {o.payload.stamp : o \in {x \in S : x.type = type /\ x.payload.fence = f}}

IsGreatest(stamp, stamps) ==
  IF stamps = {} THEN stamp = NoStamp
  ELSE stamp \in stamps /\ \A t \in stamps : ~StampBefore(stamp, t)

Sides == [Fences -> Stamp \cup {NoStamp}]

FencesFrom(s, S) ==
  /\ s \in [adds : Sides, removes : Sides]
  /\ \A f \in Fences : /\ IsGreatest(s.adds[f], StampsOf(S, "geofence_upsert", f))
                       /\ IsGreatest(s.removes[f], StampsOf(S, "geofence_remove", f))

FencesAccounted ==
  /\ geofences \in [Regions -> [adds : Sides, removes : Sides]]
  /\ \A r \in Regions : FencesFrom(geofences[r], seen[r])
  /\ \A r \in Regions : Pulled(r) => FencesFrom(rounds[r].snap.geofences, rounds[r].snap.seen)

LEMMA StampOrder ==
  ASSUME NEW a \in Stamp, NEW b \in Stamp, NEW c \in Stamp
  PROVE  /\ ~StampBefore(a, b) /\ ~StampBefore(b, c) => ~StampBefore(a, c)
         /\ StampBefore(a, b) => ~StampBefore(b, a)
         /\ ~StampBefore(a, a)
         /\ a # b => StampBefore(a, b) \/ StampBefore(b, a)
<1>1. /\ a.hlc \in Reading /\ b.hlc \in Reading /\ c.hlc \in Reading
      /\ a.regionId \in Nat /\ b.regionId \in Nat /\ c.regionId \in Nat
  BY DEF Stamp
<1>2. /\ a.hlc.l \in Nat /\ b.hlc.l \in Nat /\ c.hlc.l \in Nat
      /\ a.hlc.c \in Nat /\ b.hlc.c \in Nat /\ c.hlc.c \in Nat
  BY <1>1 DEF Reading
<1>3. ASSUME NEW g \in Reading, NEW h \in Reading PROVE g = h <=> g.l = h.l /\ g.c = h.c
  BY DEF Reading
<1>4. a = b <=> a.hlc = b.hlc /\ a.regionId = b.regionId
  BY DEF Stamp
<1>5. /\ a.hlc = b.hlc <=> a.hlc.l = b.hlc.l /\ a.hlc.c = b.hlc.c
      /\ a.hlc = c.hlc <=> a.hlc.l = c.hlc.l /\ a.hlc.c = c.hlc.c
      /\ b.hlc = c.hlc <=> b.hlc.l = c.hlc.l /\ b.hlc.c = c.hlc.c
  BY <1>1, <1>3
<1>6. QED
  BY <1>1, <1>2, <1>4, <1>5 DEF StampBefore, HlcBefore

\* Keeping the newer of two stamps keeps the greatest of all.
LEMMA NewestIsGreatest ==
  ASSUME NEW T \in SUBSET Stamp, NEW current, IsGreatest(current, T),
         NEW U \in SUBSET Stamp, NEW stamp \in U, IsGreatest(stamp, U)
  PROVE  IsGreatest(Newest(current, stamp), T \cup U)
<1>0. \A t \in U : ~StampBefore(stamp, t)
  BY DEF IsGreatest
<1>1. CASE T = {}
  <2>1. current = NoStamp /\ T \cup U = U
    BY <1>1 DEF IsGreatest
  <2>2. QED
    BY <2>1 DEF Newest
<1>2. CASE T # {}
  <2>1. current \in T /\ \A t \in T : ~StampBefore(current, t)
    BY <1>2 DEF IsGreatest
  <2>2. current # NoStamp
    BY <2>1, StampAssumption
  <2>3. CASE StampBefore(current, stamp)
    <3>1. \A t \in T : ~StampBefore(stamp, t)
      BY <2>1, <2>3, StampOrder
    <3>2. QED
      BY <1>0, <2>3, <3>1 DEF Newest, IsGreatest
  <2>4. CASE ~StampBefore(current, stamp)
    <3>1. \A t \in U : ~StampBefore(current, t)
      BY <1>0, <2>1, <2>4, StampOrder
    <3>2. QED
      BY <2>1, <2>2, <2>4, <3>1 DEF Newest, IsGreatest
  <2>5. QED
    BY <2>3, <2>4
<1>3. QED
  BY <1>1, <1>2

LEMMA GreatestUnique ==
  ASSUME NEW T \in SUBSET Stamp, NEW a, NEW b, IsGreatest(a, T), IsGreatest(b, T)
  PROVE  a = b
BY StampOrder DEF IsGreatest

LEMMA SinglestampGreatest ==
  ASSUME NEW stamp \in Stamp
  PROVE  IsGreatest(stamp, {stamp})
BY StampOrder DEF IsGreatest

LEMMA StampsTyped ==
  ASSUME NEW S, \A o \in S : WellFormed(o), NEW f,
         NEW type \in {"geofence_upsert", "geofence_remove"}
  PROVE  StampsOf(S, type, f) \in SUBSET Stamp
BY DEF StampsOf, WellFormed

LEMMA NewestTyped ==
  ASSUME NEW current \in Stamp \cup {NoStamp}, NEW stamp \in Stamp
  PROVE  Newest(current, stamp) \in Stamp
BY DEF Newest

LEMMA FencesUpsert ==
  ASSUME NEW S, \A x \in S : WellFormed(x), NEW o, WellFormed(o), o.type = "geofence_upsert",
         NEW s, FencesFrom(s, S)
  PROVE  FencesFrom(ElementAdd(s, o.payload.fence, o.payload.stamp), S \cup {o})
<1> DEFINE e == o.payload.fence
           st == o.payload.stamp
           t == ElementAdd(s, e, st)
           U(f) == StampsOf(S, "geofence_upsert", f)
<1>1. e \in Fences /\ st \in Stamp
  BY DEF WellFormed
<1>2. s \in [adds : Sides, removes : Sides] /\ s.adds \in Sides /\ s.removes \in Sides
  BY DEF FencesFrom
<1> HIDE DEF e, st
<1>3. /\ t \in [adds : Sides, removes : Sides]
      /\ t.adds = [s.adds EXCEPT ![e] = Newest(s.adds[e], st)]
      /\ t.removes = s.removes
  <2>1. Newest(s.adds[e], st) \in Stamp
    BY <1>1, <1>2, NewestTyped DEF Sides
  <2>2. [s.adds EXCEPT ![e] = Newest(s.adds[e], st)] \in Sides
    BY <1>1, <1>2, <2>1 DEF Sides
  <2>3. t = [s EXCEPT !.adds = [s.adds EXCEPT ![e] = Newest(s.adds[e], st)]]
    BY <1>2 DEF ElementAdd
  <2>4. QED
    BY <1>2, <2>2, <2>3
<1>4. ASSUME NEW f \in Fences
      PROVE  IsGreatest(t.adds[f], StampsOf(S \cup {o}, "geofence_upsert", f))
  <2>1. U(f) \in SUBSET Stamp /\ IsGreatest(s.adds[f], U(f))
    BY StampsTyped DEF FencesFrom
  <2>2. CASE f = e
    <3>1. StampsOf(S \cup {o}, "geofence_upsert", f) = U(f) \cup {st}
      BY <2>2 DEF e, st, StampsOf
    <3>2. t.adds[f] = Newest(s.adds[f], st)
      BY <1>2, <1>3, <2>2 DEF Sides
    <3>3. IsGreatest(st, {st}) /\ {st} \in SUBSET Stamp /\ st \in {st}
      BY <1>1, SinglestampGreatest
    <3>4. IsGreatest(Newest(s.adds[f], st), U(f) \cup {st})
      BY <2>1, <3>3, NewestIsGreatest
    <3>5. QED
      BY <3>1, <3>2, <3>4
  <2>3. CASE f # e
    <3>1. StampsOf(S \cup {o}, "geofence_upsert", f) = U(f)
      BY <2>3 DEF e, StampsOf
    <3>2. t.adds[f] = s.adds[f]
      BY <1>2, <1>3, <2>3 DEF Sides
    <3>3. QED
      BY <2>1, <3>1, <3>2
  <2>4. QED
    BY <2>2, <2>3
<1>5. ASSUME NEW f \in Fences
      PROVE  IsGreatest(t.removes[f], StampsOf(S \cup {o}, "geofence_remove", f))
  <2>1. StampsOf(S \cup {o}, "geofence_remove", f) = StampsOf(S, "geofence_remove", f)
    BY DEF StampsOf
  <2>2. QED
    BY <1>3, <2>1 DEF FencesFrom
<1> HIDE DEF t
<1>6. FencesFrom(t, S \cup {o})
  BY <1>3, <1>4, <1>5 DEF FencesFrom
<1>7. QED
  BY <1>6 DEF t, e, st

LEMMA FencesRemove ==
  ASSUME NEW S, \A x \in S : WellFormed(x), NEW o, WellFormed(o), o.type = "geofence_remove",
         NEW s, FencesFrom(s, S)
  PROVE  FencesFrom(ElementRemove(s, o.payload.fence, o.payload.stamp), S \cup {o})
<1> DEFINE e == o.payload.fence
           st == o.payload.stamp
           t == ElementRemove(s, e, st)
           U(f) == StampsOf(S, "geofence_remove", f)
<1>1. e \in Fences /\ st \in Stamp
  BY DEF WellFormed
<1>2. s \in [adds : Sides, removes : Sides] /\ s.adds \in Sides /\ s.removes \in Sides
  BY DEF FencesFrom
<1> HIDE DEF e, st
<1>3. /\ t \in [adds : Sides, removes : Sides]
      /\ t.removes = [s.removes EXCEPT ![e] = Newest(s.removes[e], st)]
      /\ t.adds = s.adds
  <2>1. Newest(s.removes[e], st) \in Stamp
    BY <1>1, <1>2, NewestTyped DEF Sides
  <2>2. [s.removes EXCEPT ![e] = Newest(s.removes[e], st)] \in Sides
    BY <1>1, <1>2, <2>1 DEF Sides
  <2>3. t = [s EXCEPT !.removes = [s.removes EXCEPT ![e] = Newest(s.removes[e], st)]]
    BY <1>2 DEF ElementRemove
  <2>4. QED
    BY <1>2, <2>2, <2>3
<1>4. ASSUME NEW f \in Fences
      PROVE  IsGreatest(t.removes[f], StampsOf(S \cup {o}, "geofence_remove", f))
  <2>1. U(f) \in SUBSET Stamp /\ IsGreatest(s.removes[f], U(f))
    BY StampsTyped DEF FencesFrom
  <2>2. CASE f = e
    <3>1. StampsOf(S \cup {o}, "geofence_remove", f) = U(f) \cup {st}
      BY <2>2 DEF e, st, StampsOf
    <3>2. t.removes[f] = Newest(s.removes[f], st)
      BY <1>2, <1>3, <2>2 DEF Sides
    <3>3. IsGreatest(st, {st}) /\ {st} \in SUBSET Stamp /\ st \in {st}
      BY <1>1, SinglestampGreatest
    <3>4. IsGreatest(Newest(s.removes[f], st), U(f) \cup {st})
      BY <2>1, <3>3, NewestIsGreatest
    <3>5. QED
      BY <3>1, <3>2, <3>4
  <2>3. CASE f # e
    <3>1. StampsOf(S \cup {o}, "geofence_remove", f) = U(f)
      BY <2>3 DEF e, StampsOf
    <3>2. t.removes[f] = s.removes[f]
      BY <1>2, <1>3, <2>3 DEF Sides
    <3>3. QED
      BY <2>1, <3>1, <3>2
  <2>4. QED
    BY <2>2, <2>3
<1>5. ASSUME NEW f \in Fences
      PROVE  IsGreatest(t.adds[f], StampsOf(S \cup {o}, "geofence_upsert", f))
  <2>1. StampsOf(S \cup {o}, "geofence_upsert", f) = StampsOf(S, "geofence_upsert", f)
    BY DEF StampsOf
  <2>2. QED
    BY <1>3, <2>1 DEF FencesFrom
<1> HIDE DEF t
<1>6. FencesFrom(t, S \cup {o})
  BY <1>3, <1>4, <1>5 DEF FencesFrom
<1>7. QED
  BY <1>6 DEF t, e, st

LEMMA FencesOther ==
  ASSUME NEW S, NEW o, o.type \notin {"geofence_upsert", "geofence_remove"},
         NEW s, FencesFrom(s, S)
  PROVE  FencesFrom(s, S \cup {o})
<1>1. \A f : /\ StampsOf(S \cup {o}, "geofence_upsert", f) = StampsOf(S, "geofence_upsert", f)
             /\ StampsOf(S \cup {o}, "geofence_remove", f) = StampsOf(S, "geofence_remove", f)
  BY DEF StampsOf
<1>2. QED
  BY <1>1 DEF FencesFrom

\* One side of two element sets, merged.
LEMMA SideMerge ==
  ASSUME NEW type \in {"geofence_upsert", "geofence_remove"},
         NEW S, NEW T, \A x \in S \cup T : WellFormed(x),
         NEW mine \in Sides, NEW theirs \in Sides,
         \A f \in Fences : IsGreatest(mine[f], StampsOf(S, type, f)),
         \A f \in Fences : IsGreatest(theirs[f], StampsOf(T, type, f))
  PROVE  /\ MergeSide(mine, theirs) \in Sides
         /\ \A f \in Fences : IsGreatest(MergeSide(mine, theirs)[f], StampsOf(S \cup T, type, f))
<1>0. MergeSide(mine, theirs) = [f \in Fences |-> IF theirs[f] = NoStamp THEN mine[f]
                                                 ELSE Newest(mine[f], theirs[f])]
  BY DEF MergeSide, Sides
<1>1. ASSUME NEW f \in Fences
      PROVE  /\ MergeSide(mine, theirs)[f] \in Stamp \cup {NoStamp}
             /\ IsGreatest(MergeSide(mine, theirs)[f], StampsOf(S \cup T, type, f))
  <2>1. StampsOf(S \cup T, type, f) = StampsOf(S, type, f) \cup StampsOf(T, type, f)
    BY DEF StampsOf
  <2>2. StampsOf(S, type, f) \in SUBSET Stamp /\ StampsOf(T, type, f) \in SUBSET Stamp
    BY StampsTyped
  <2>3. mine[f] \in Stamp \cup {NoStamp} /\ theirs[f] \in Stamp \cup {NoStamp}
    BY DEF Sides
  <2>4. CASE theirs[f] = NoStamp
    <3>1. StampsOf(T, type, f) = {}
      BY <2>2, <2>4, StampAssumption DEF IsGreatest
    <3>2. MergeSide(mine, theirs)[f] = mine[f]
      BY <1>0, <2>4
    <3>3. QED
      BY <2>1, <2>3, <3>1, <3>2
  <2>5. CASE theirs[f] # NoStamp
    <3>1. theirs[f] \in StampsOf(T, type, f)
      BY <2>5 DEF IsGreatest
    <3>2. IsGreatest(Newest(mine[f], theirs[f]), StampsOf(S, type, f) \cup StampsOf(T, type, f))
      BY <2>2, <3>1, NewestIsGreatest
    <3>3. MergeSide(mine, theirs)[f] = Newest(mine[f], theirs[f])
      BY <1>0, <2>5
    <3>4. Newest(mine[f], theirs[f]) \in Stamp
      BY <2>3, <2>5, NewestTyped
    <3>5. QED
      BY <2>1, <3>2, <3>3, <3>4
  <2>6. QED
    BY <2>4, <2>5
<1>2. MergeSide(mine, theirs) \in Sides
  BY <1>0, <1>1 DEF Sides
<1>3. QED
  BY <1>1, <1>2

LEMMA FencesMerge ==
  ASSUME NEW S, NEW T, \A x \in S \cup T : WellFormed(x),
         NEW s, NEW t, FencesFrom(s, S), FencesFrom(t, T)
  PROVE  FencesFrom(ElementMerge(s, t), S \cup T)
<1>1. /\ s.adds \in Sides /\ s.removes \in Sides /\ t.adds \in Sides /\ t.removes \in Sides
      /\ \A f \in Fences : IsGreatest(s.adds[f], StampsOf(S, "geofence_upsert", f))
      /\ \A f \in Fences : IsGreatest(s.removes[f], StampsOf(S, "geofence_remove", f))
      /\ \A f \in Fences : IsGreatest(t.adds[f], StampsOf(T, "geofence_upsert", f))
      /\ \A f \in Fences : IsGreatest(t.removes[f], StampsOf(T, "geofence_remove", f))
  BY DEF FencesFrom
<1> DEFINE a == MergeSide(s.adds, t.adds)
           b == MergeSide(s.removes, t.removes)
<1>2. a \in Sides /\ \A f \in Fences : IsGreatest(a[f], StampsOf(S \cup T, "geofence_upsert", f))
  BY <1>1, SideMerge
<1>3. b \in Sides /\ \A f \in Fences : IsGreatest(b[f], StampsOf(S \cup T, "geofence_remove", f))
  BY <1>1, SideMerge
<1>4. ElementMerge(s, t) = [adds |-> a, removes |-> b]
  BY DEF ElementMerge
<1> HIDE DEF a, b
<1>5. /\ ElementMerge(s, t) \in [adds : Sides, removes : Sides]
      /\ ElementMerge(s, t).adds = a /\ ElementMerge(s, t).removes = b
  BY <1>2, <1>3, <1>4
<1>6. QED
  BY <1>2, <1>3, <1>5 DEF FencesFrom

\* Region p's geofences after it accounts for S as well.
LEMMA FencesStep ==
  ASSUME Accounted, FencesAccounted, NEW p \in Regions, NEW S, NEW s,
         UNCHANGED deployment,
         seen' = [seen EXCEPT ![p] = @ \cup S],
         geofences' = [geofences EXCEPT ![p] = s],
         FencesFrom(s, seen[p] \cup S),
         \A x \in Regions : Pulled(x)' => Pulled(x) /\ rounds'[x] = rounds[x]
  PROVE  FencesAccounted'
<1>1. Regions' = Regions
  BY DEF Regions
<1>2. geofences' \in [Regions -> [adds : Sides, removes : Sides]]
  BY DEF FencesAccounted, FencesFrom
<1>3. \A r \in Regions : FencesFrom(geofences'[r], seen'[r])
  BY DEF FencesAccounted, Accounted
<1>4. \A r \in Regions : Pulled(r)' => FencesFrom(rounds'[r].snap.geofences, rounds'[r].snap.seen)
  BY DEF FencesAccounted
<1>5. QED
  BY <1>1, <1>2, <1>3, <1>4 DEF FencesAccounted

LEMMA FencesNext ==
  ASSUME Accounted, Shapes, FencesAccounted, [Next]_vars, Shapes'
  PROVE  FencesAccounted'
<1>0. /\ \A o \in ops' : WellFormed(o)
      /\ \A r \in Regions : seen[r] \subseteq ops /\ \A o \in seen[r] : WellFormed(o)
  BY DEF Accounted, Shapes
<1>a. ASSUME UNCHANGED <<deployment, geofences, seen>>,
             \A x \in Regions : Pulled(x)' => Pulled(x) /\ rounds'[x] = rounds[x]
      PROVE  FencesAccounted'
  BY <1>a DEF FencesAccounted, Regions
<1>b. ASSUME NEW r \in Regions, NEW type, NEW payload, IssuesOf(r, type, payload),
             type \notin {"geofence_upsert", "geofence_remove"}, geofences' = geofences
      PROVE  FencesAccounted'
  <2>1. PICK o : IssuesOnly(r, o) /\ o.type = type
    BY <1>b DEF IssuesOf
  <2>2. FencesFrom(geofences[r], seen[r])
    BY DEF FencesAccounted
  <2>3. FencesFrom(geofences[r], seen[r] \cup {o})
    BY <1>b, <2>1, <2>2, FencesOther
  <2>4. geofences' = [geofences EXCEPT ![r] = geofences[r]]
    BY <1>b DEF FencesAccounted
  <2>5. /\ seen' = [seen EXCEPT ![r] = @ \cup {o}]
        /\ UNCHANGED <<deployment, rounds>>
    BY <2>1, Issuing DEF IssuesOnly
  <2>6. QED
    BY <2>3, <2>4, <2>5, FencesStep DEF Pulled
<1>1. ASSUME NEW r \in Regions, NEW c, NEW q, JoinRoom(r, c, q) \/ LeaveRoom(r, c, q)
      PROVE  FencesAccounted'
  <2>1. IssuesOf(r, "membership_add", JoinPayload(r, c, q))
          \/ IssuesOf(r, "membership_remove", LeavePayload(r, c, q))
    BY <1>1, IssuingSteps
  <2>2. geofences' = geofences
    BY <1>1 DEF JoinRoom, LeaveRoom
  <2>3. QED
    BY <2>1, <2>2, <1>b
<1>2. ASSUME NEW r \in Regions, NEW q, NEW left, Broadcast(r, q, left) PROVE FencesAccounted'
  <2>1. \E payload : IssuesOf(r, "message_append", payload)
    BY <1>2, IssuingSteps
  <2>2. geofences' = geofences
    BY <1>2 DEF Broadcast
  <2>3. QED
    BY <2>1, <2>2, <1>b
<1>3. ASSUME NEW r \in Regions, NEW q, NEW id, Retract(r, q, id) PROVE FencesAccounted'
  <2>1. IssuesOf(r, "message_remove", [room |-> q, message |-> id])
    BY <1>3, IssuingSteps
  <2>2. geofences' = geofences
    BY <1>3 DEF Retract
  <2>3. QED
    BY <2>1, <2>2, <1>b
<1>4. ASSUME NEW r \in Regions, NEW k, SaveSession(r, k) \/ SetGlobalConfig(r, k)
      PROVE  FencesAccounted'
  <2>1. \E type : type \in {"session_update", "global_config"} /\ IssuesOf(r, type, [key |-> k])
    BY <1>4, IssuingSteps
  <2>2. geofences' = geofences
    BY <1>4 DEF SaveSession, SetGlobalConfig
  <2>3. QED
    BY <2>1, <2>2, <1>b
<1>5. ASSUME NEW r \in Regions, NEW f \in Fences,
             NEW type \in {"geofence_upsert", "geofence_remove"}, EditGeofence(r, f, type)
      PROVE  FencesAccounted'
  <2>0. IssuesOf(r, type, EditPayload(r, f))
    BY <1>5, IssuingSteps
  <2>1. PICK o : IssuesOnly(r, o) /\ o.type = type /\ o.payload = EditPayload(r, f)
    BY <2>0 DEF IssuesOf
  <2>2. /\ seen' = [seen EXCEPT ![r] = @ \cup {o}]
        /\ ops' = ops \cup {o}
        /\ UNCHANGED <<deployment, rounds>>
    BY <2>1, Issuing DEF IssuesOnly
  <2> DEFINE st == o.payload.stamp
             s == IF type = "geofence_upsert" THEN ElementAdd(geofences[r], f, st)
                  ELSE ElementRemove(geofences[r], f, st)
  <2>3. o.payload.fence = f /\ st = [hlc |-> HlcNow(hlc[r], wall[r]), regionId |-> r]
    BY <2>1 DEF EditPayload
  <2>4. geofences' = [geofences EXCEPT ![r] = s]
    BY <1>5, <2>3 DEF EditGeofence
  <2>5. FencesFrom(geofences[r], seen[r]) /\ WellFormed(o)
    BY <1>0, <2>2 DEF FencesAccounted
  <2>6. FencesFrom(s, seen[r] \cup {o})
    <3>1. CASE type = "geofence_upsert"
      BY <1>0, <2>1, <2>3, <2>5, <3>1, FencesUpsert
    <3>2. CASE type = "geofence_remove"
      BY <1>0, <2>1, <2>3, <2>5, <3>2, FencesRemove
    <3>3. QED
      BY <3>1, <3>2
  <2> HIDE DEF s
  <2>7. QED
    BY <2>2, <2>4, <2>6, FencesStep DEF Pulled
<1>6. ASSUME NEW p \in Regions, NEW o \in ops, HandlePeerOperation(p, o) PROVE FencesAccounted'
  <2>1. /\ geofences' = AppliedGeofences(p, o)
        /\ seen' = [seen EXCEPT ![p] = @ \cup {o}]
        /\ UNCHANGED <<deployment, rounds>>
    BY <1>6 DEF HandlePeerOperation
  <2>2. WellFormed(o) /\ FencesFrom(geofences[p], seen[p])
    BY DEF Shapes, FencesAccounted
  <2>3. CASE o.type = "geofence_upsert"
    <3> DEFINE s == ElementAdd(geofences[p], o.payload.fence, o.payload.stamp)
    <3>1. geofences' = [geofences EXCEPT ![p] = s]
      BY <2>1, <2>3 DEF AppliedGeofences
    <3>2. FencesFrom(s, seen[p] \cup {o})
      BY <1>0, <2>2, <2>3, FencesUpsert
    <3> HIDE DEF s
    <3>3. QED
      BY <2>1, <3>1, <3>2, FencesStep DEF Pulled
  <2>4. CASE o.type = "geofence_remove"
    <3> DEFINE s == ElementRemove(geofences[p], o.payload.fence, o.payload.stamp)
    <3>1. geofences' = [geofences EXCEPT ![p] = s]
      BY <2>1, <2>4 DEF AppliedGeofences
    <3>2. FencesFrom(s, seen[p] \cup {o})
      BY <1>0, <2>2, <2>4, FencesRemove
    <3> HIDE DEF s
    <3>3. QED
      BY <2>1, <3>1, <3>2, FencesStep DEF Pulled
  <2>5. CASE o.type \notin {"geofence_upsert", "geofence_remove"}
    <3>1. geofences' = geofences
      BY <2>1, <2>5 DEF AppliedGeofences
    <3>2. geofences' = [geofences EXCEPT ![p] = geofences[p]]
      BY <3>1 DEF FencesAccounted
    <3>3. FencesFrom(geofences[p], seen[p] \cup {o})
      BY <2>2, <2>5, FencesOther
    <3>4. QED
      BY <2>1, <3>2, <3>3, FencesStep DEF Pulled
  <2>6. QED
    BY <2>3, <2>4, <2>5
<1>7. ASSUME NEW r \in Regions, MergeRemoteState(r) PROVE FencesAccounted'
  <2> DEFINE snap == rounds[r].snap
             s == ElementMerge(geofences[r], snap.geofences)
  <2>1. /\ Pulled(r)
        /\ geofences' = [geofences EXCEPT ![r] = s]
        /\ seen' = [seen EXCEPT ![r] = @ \cup snap.seen]
        /\ rounds' = [rounds EXCEPT ![r] = Nobody]
        /\ UNCHANGED deployment
    BY <1>7 DEF MergeRemoteState, Pulled
  <2>2. /\ FencesFrom(geofences[r], seen[r]) /\ FencesFrom(snap.geofences, snap.seen)
        /\ snap.seen \subseteq ops
    BY <2>1 DEF FencesAccounted, Accounted
  <2>3. \A x \in Regions : Pulled(x)' => Pulled(x) /\ rounds'[x] = rounds[x]
    BY <2>1 DEF Accounted, Pulled
  <2> HIDE DEF snap
  <2>4. \A x \in seen[r] \cup snap.seen : WellFormed(x)
    BY <1>0, <2>2 DEF Shapes
  <2>5. FencesFrom(s, seen[r] \cup snap.seen)
    BY <2>2, <2>4, FencesMerge
  <2> HIDE DEF s
  <2>6. QED
    BY <2>1, <2>3, <2>5, FencesStep
<1>8. ASSUME NEW r \in Regions, NEW p \in Regions, Probe(r, p) PROVE FencesAccounted'
  <2>1. /\ UNCHANGED <<deployment, geofences, seen>>
        /\ rounds' = [rounds EXCEPT ![r] = [peer |-> p, snap |-> NoSnapshot]]
    BY <1>8 DEF Probe, data
  <2>2. \A x \in Regions : Pulled(x)' => Pulled(x) /\ rounds'[x] = rounds[x]
    BY <2>1 DEF Accounted, Pulled
  <2>3. QED
    BY <2>1, <2>2, <1>a
<1>9. ASSUME NEW r \in Regions, FetchState(r) PROVE FencesAccounted'
  <2>1. UNCHANGED <<deployment, geofences, seen>>
    BY <1>9 DEF FetchState, data
  <2>2. /\ rounds[r].peer \in Regions
        /\ rounds'[r].snap = Snapshot(rounds[r].peer)
        /\ \A x \in Regions : x # r => rounds'[x] = rounds[x]
    BY <1>9, FetchedSnapshot
  <2>3. FencesFrom(rounds'[r].snap.geofences, rounds'[r].snap.seen)
    BY <2>2 DEF Snapshot, FencesAccounted
  <2>4. QED
    BY <2>1, <2>2, <2>3 DEF FencesAccounted, Regions, Pulled
<1>10. ASSUME NEW r \in Regions, FetchFails(r) PROVE FencesAccounted'
  <2>1. UNCHANGED <<deployment, geofences, seen>> /\ rounds' = [rounds EXCEPT ![r] = Nobody]
    BY <1>10 DEF FetchFails, data
  <2>2. \A x \in Regions : Pulled(x)' => Pulled(x) /\ rounds'[x] = rounds[x]
    BY <2>1 DEF Accounted, Pulled
  <2>3. QED
    BY <2>1, <2>2, <1>a
<1>c. ASSUME UNCHANGED <<deployment, geofences, seen, rounds>> PROVE FencesAccounted'
  BY <1>a, <1>c DEF Pulled
<1>11. ASSUME NEW r, NEW p,
              \/ ProbeFails(r, p) \/ MarkRegionFailed(r, p) \/ MarkRegionHealthy(r, p) \/ Tick(r)
       PROVE  FencesAccounted'
  BY <1>11, <1>c DEF ProbeFails, MarkRegionFailed, MarkRegionHealthy, Tick, data
<1>12. ASSUME NEW w, NEW p, NEW ack, Settle(w, p, ack) \/ Decide(w) PROVE FencesAccounted'
  BY <1>12, <1>c DEF Settle, Decide, data
<1>13. CASE UNCHANGED vars
  BY <1>13, <1>c DEF vars, data
<1>14. QED
  BY <1>1, <1>2, <1>3, <1>4, <1>5, <1>6, <1>7, <1>8, <1>9, <1>10, <1>11, <1>12, <1>13
     DEF Next, SyncGeofence, RemoveGeofence

-------------------------------------------------------------------------------
(* Strong convergence *)

ConvergenceInv ==
  /\ MembershipInv
  /\ MessagesNumbered
  /\ MessagesAccounted
  /\ FencesAccounted

LEMMA ConvergenceInvInit == Init => ConvergenceInv
<1> SUFFICES ASSUME Init PROVE ConvergenceInv
  OBVIOUS
<1>1. ops = {} /\ \A r \in Regions : seen[r] = {} /\ rounds[r] = Nobody
  BY DEF Init
<1>2. MembershipInv
  BY MembershipInvInit
<1>3. MessagesNumbered
  BY <1>1 DEF MessagesNumbered
<1>4. MessagesFrom({}) = [q \in Rooms |-> {}]
  BY DEF MessagesFrom
<1>5. MessagesAccounted
  BY <1>1, <1>4 DEF Init, MessagesAccounted, Pulled
<1>6. FencesFrom(EmptyElementSet(Fences), {})
  BY DEF EmptyElementSet, FencesFrom, Sides, StampsOf, IsGreatest
<1>7. FencesAccounted
  <2>1. geofences = [r \in Regions |-> EmptyElementSet(Fences)]
    BY DEF Init
  <2>2. EmptyElementSet(Fences) \in [adds : Sides, removes : Sides]
    BY <1>6 DEF FencesFrom
  <2>3. QED
    BY <1>1, <1>6, <2>1, <2>2 DEF FencesAccounted, Pulled
<1>8. QED
  BY <1>2, <1>3, <1>5, <1>7 DEF ConvergenceInv

LEMMA ConvergenceInvNext == ConvergenceInv /\ [Next]_vars => ConvergenceInv'
<1> SUFFICES ASSUME ConvergenceInv, [Next]_vars PROVE ConvergenceInv'
  OBVIOUS
<1>1. MembershipInv'
  BY MembershipInvNext DEF ConvergenceInv
<1>2. MessagesNumbered'
  BY MessagesNumberedNext DEF ConvergenceInv, MembershipInv
<1>3. MessagesAccounted'
  BY <1>2, MessagesNext DEF ConvergenceInv, MembershipInv
<1>4. FencesAccounted'
  BY <1>1, FencesNext DEF ConvergenceInv, MembershipInv
<1>5. QED
  BY <1>1, <1>2, <1>3, <1>4 DEF ConvergenceInv

LEMMA ReplicasConvergeHolds == ConvergenceInv => ReplicasConverge
<1> SUFFICES ASSUME ConvergenceInv PROVE ReplicasConverge
  OBVIOUS
<1>1. ASSUME NoRetraction, NEW r \in Regions, NEW p \in Regions, seen[r] = seen[p]
      PROVE  SameRooms(r, p)
  BY <1>1 DEF ConvergenceInv, MembershipInv, MembersAccounted, MessagesAccounted, SameRooms
<1>2. RoomsConverge
  BY <1>1 DEF RoomsConverge, NoRetraction
<1>3. ASSUME NEW r \in Regions, NEW p \in Regions, seen[r] = seen[p]
      PROVE  geofences[r] = geofences[p]
  <2>1. \A o \in seen[r] : WellFormed(o)
    BY DEF ConvergenceInv, MembershipInv, Accounted, Shapes
  <2>2. /\ FencesFrom(geofences[r], seen[r]) /\ FencesFrom(geofences[p], seen[r])
        /\ geofences[r] \in [adds : Sides, removes : Sides]
        /\ geofences[p] \in [adds : Sides, removes : Sides]
    BY <1>3 DEF ConvergenceInv, FencesAccounted
  <2>3. ASSUME NEW f \in Fences
        PROVE  /\ geofences[r].adds[f] = geofences[p].adds[f]
               /\ geofences[r].removes[f] = geofences[p].removes[f]
    <3>1. /\ StampsOf(seen[r], "geofence_upsert", f) \in SUBSET Stamp
          /\ StampsOf(seen[r], "geofence_remove", f) \in SUBSET Stamp
      BY <2>1, StampsTyped
    <3>2. QED
      BY <2>2, <3>1, GreatestUnique DEF FencesFrom
  <2>4. geofences[r].adds = geofences[p].adds /\ geofences[r].removes = geofences[p].removes
    BY <2>2, <2>3 DEF Sides
  <2>5. QED
    BY <2>2, <2>4
<1>4. QED
  BY <1>2, <1>3 DEF ReplicasConverge, GeofencesConverge

\* Strong convergence for any number of regions and operations: regions whose
\* states account for the same operations hold the same members, messages and
\* geofences, whatever the transport lost, repeated, delayed or reordered and
\* whichever parts arrived in snapshots.
THEOREM ConvergenceSafe == Spec => []ReplicasConverge
BY ConvergenceInvInit, ConvergenceInvNext, ReplicasConvergeHolds, PTL DEF Spec

-------------------------------------------------------------------------------
(* Trees of messages: ancestors and the reference order *)

Ids(N) == {n.id : n \in N}

Distinct(N) == \A m, n \in N : m.id = n.id => m = n

\* No cycles and no endless ascents: some origin leads out of every set of nodes.
Grounded(N) == \A S \in SUBSET N : S # {} => \E n \in S : n.originLeft \notin Ids(S)

IsTree(N) == Distinct(N) /\ Grounded(N) /\ Ids(N) \subseteq MessageIds

\* A set of ids that holds, with a node, its origin.
Upward(N, S) ==
  \A n \in N : n.originLeft \in Ids(N) /\ n.id \in S => n.originLeft \in S

\* The definition of Above, by upward closed sets.
LEMMA AboveIs ==
  ASSUME NEW N, NEW a, NEW b
  PROVE  Above(N, a, b) <=> \A S \in SUBSET Ids(N) : b \in S /\ Upward(N, S) => a \in S
<1> DEFINE parents == {n \in N : \E m \in N : m.id = n.originLeft}
<1>1. \A S : Upward(N, S) <=> \A n \in parents : n.id \in S => n.originLeft \in S
  BY DEF Upward, Ids
<1> QED
  BY <1>1 DEF Above, Ids

LEMMA AboveSelf ==
  ASSUME NEW N, NEW b
  PROVE  Above(N, b, b)
BY AboveIs

LEMMA AboveIn ==
  ASSUME NEW N, NEW a, NEW b \in Ids(N), Above(N, a, b)
  PROVE  a \in Ids(N)
<1>1. Upward(N, Ids(N))
  BY DEF Upward
<1> QED
  BY <1>1, AboveIs

LEMMA AboveTrans ==
  ASSUME NEW N, NEW a, NEW b, NEW c, Above(N, a, b), Above(N, b, c)
  PROVE  Above(N, a, c)
BY AboveIs

LEMMA AboveOrigin ==
  ASSUME NEW N, NEW n \in N, n.originLeft \in Ids(N)
  PROVE  Above(N, n.originLeft, n.id)
BY AboveIs DEF Upward

\* What is above a node and not the node is above its origin.
LEMMA AboveStrict ==
  ASSUME NEW N, Distinct(N), NEW n \in N, NEW a, Above(N, a, n.id), a # n.id
  PROVE  n.originLeft \in Ids(N) /\ Above(N, a, n.originLeft)
<1>1. n.id \in Ids(N)
  BY DEF Ids
<1>2. n.originLeft \in Ids(N)
  <2>1. SUFFICES ASSUME n.originLeft \notin Ids(N) PROVE FALSE
    OBVIOUS
  <2>2. Upward(N, {n.id})
    BY <2>1 DEF Upward, Distinct
  <2> QED
    BY <1>1, <2>2, AboveIs
<1>3. ASSUME NEW S \in SUBSET Ids(N), n.originLeft \in S, Upward(N, S) PROVE a \in S
  <2>1. Upward(N, S \cup {n.id})
    BY <1>3 DEF Upward, Distinct
  <2>2. a \in S \cup {n.id}
    BY <1>1, <2>1, AboveIs
  <2> QED
    BY <2>2
<1> QED
  BY <1>2, <1>3, AboveIs

\* Nothing is above its own origin.
LEMMA Acyclic ==
  ASSUME NEW N, Distinct(N), Grounded(N), NEW n \in N, n.originLeft \in Ids(N)
  PROVE  ~Above(N, n.id, n.originLeft)
<1> SUFFICES ASSUME Above(N, n.id, n.originLeft) PROVE FALSE
  OBVIOUS
<1> DEFINE S == {x \in N : Above(N, x.id, n.id) /\ Above(N, n.id, x.id)}
<1>1. n \in S
  BY AboveSelf
<1>2. ASSUME NEW x \in S PROVE x.originLeft \in Ids(S)
  <2>1. x.originLeft \in Ids(N) /\ Above(N, n.id, x.originLeft)
    <3>1. CASE x = n
      BY <3>1
    <3>2. CASE x # n
      <4>1. n.id # x.id
        BY <3>2 DEF Distinct
      <4> QED
        BY <4>1, AboveStrict
    <3> QED
      BY <3>1, <3>2
  <2>2. Above(N, x.originLeft, x.id) /\ Above(N, x.id, n.id)
    BY <2>1, AboveOrigin
  <2>3. Above(N, x.originLeft, n.id)
    BY <2>2, AboveTrans
  <2>4. PICK y \in N : y.id = x.originLeft
    BY <2>1 DEF Ids
  <2>5. y \in S
    BY <2>1, <2>3, <2>4
  <2> HIDE DEF S
  <2> QED
    BY <2>4, <2>5 DEF Ids
<1>3. S \in SUBSET N
  OBVIOUS
<1> HIDE DEF S
<1> QED
  BY <1>1, <1>2, <1>3 DEF Grounded

LEMMA AboveAntisym ==
  ASSUME NEW N, Distinct(N), Grounded(N), NEW a \in Ids(N), NEW b,
         Above(N, a, b), Above(N, b, a)
  PROVE  a = b
<1> SUFFICES ASSUME a # b PROVE FALSE
  OBVIOUS
<1>1. PICK n \in N : n.id = a
  BY DEF Ids
<1>2. n.originLeft \in Ids(N) /\ Above(N, b, n.originLeft)
  BY <1>1, AboveStrict
<1>3. Above(N, n.id, n.originLeft)
  BY <1>1, <1>2, AboveTrans
<1> QED
  BY <1>2, <1>3, Acyclic

\* Two nodes above a third are above one another: the path is a line.
LEMMA AboveComparable ==
  ASSUME NEW N, Distinct(N), NEW a, NEW b, NEW c \in Ids(N), Above(N, a, c), Above(N, b, c)
  PROVE  Above(N, a, b) \/ Above(N, b, a)
<1> DEFINE S == {x \in Ids(N) : Above(N, b, x) \/ Above(N, x, b)}
<1>1. c \in S
  OBVIOUS
<1>2. ASSUME NEW n \in N, n.originLeft \in Ids(N), n.id \in S PROVE n.originLeft \in S
  <2>1. Above(N, n.originLeft, n.id)
    BY <1>2, AboveOrigin
  <2>2. CASE Above(N, n.id, b)
    BY <1>2, <2>1, <2>2, AboveTrans
  <2>3. CASE Above(N, b, n.id) /\ b # n.id
    BY <1>2, <2>3, AboveStrict
  <2>4. CASE b = n.id
    BY <1>2, <2>1, <2>4
  <2> QED
    BY <1>2, <2>2, <2>3, <2>4
<1>3. S \in SUBSET Ids(N) /\ Upward(N, S)
  BY <1>2 DEF Upward
<1> HIDE DEF S
<1>4. a \in S
  BY <1>1, <1>3, AboveIs
<1> QED
  BY <1>4 DEF S

\* The path of a node passes through one of several siblings only.
LEMMA OneSibling ==
  ASSUME NEW N, Distinct(N), Grounded(N), NEW m \in N, NEW n \in N, NEW b \in Ids(N),
         m.originLeft = n.originLeft, Above(N, m.id, b), Above(N, n.id, b)
  PROVE  m = n
<1> SUFFICES ASSUME m.id # n.id PROVE FALSE
  BY DEF Distinct
<1>1. ASSUME NEW x \in N, NEW y \in N, x.originLeft = y.originLeft, x.id # y.id,
             Above(N, x.id, y.id)
      PROVE  FALSE
  <2>1. y.originLeft \in Ids(N) /\ Above(N, x.id, y.originLeft)
    BY <1>1, AboveStrict
  <2> QED
    BY <1>1, <2>1, Acyclic
<1>2. Above(N, m.id, n.id) \/ Above(N, n.id, m.id)
  BY AboveComparable
<1> QED
  BY <1>1, <1>2

\* Message ids are totally ordered.
LEMMA IdOrder ==
  ASSUME NEW a \in MessageIds, NEW b \in MessageIds, NEW c \in MessageIds
  PROVE  /\ ~IdBefore(a, a)
         /\ IdBefore(a, b) => ~IdBefore(b, a)
         /\ IdBefore(a, b) /\ IdBefore(b, c) => IdBefore(a, c)
         /\ a # b => IdBefore(a, b) \/ IdBefore(b, a)
<1>1. \A x \in MessageIds : /\ x.hlc.l \in Nat /\ x.hlc.c \in Nat /\ x.region \in Nat /\ x.localSeq \in Nat
                            /\ x.hlc = [l |-> x.hlc.l, c |-> x.hlc.c]
                            /\ x = [hlc |-> x.hlc, region |-> x.region, localSeq |-> x.localSeq]
  BY DEF MessageIds, Reading
<1>2. \A x, y \in MessageIds : x.hlc = y.hlc <=> x.hlc.l = y.hlc.l /\ x.hlc.c = y.hlc.c
  BY <1>1
<1>3. \A x, y \in MessageIds : x = y <=> x.hlc = y.hlc /\ x.region = y.region /\ x.localSeq = y.localSeq
  BY <1>1
<1>4. /\ a.hlc.l \in Nat /\ a.hlc.c \in Nat /\ a.region \in Nat /\ a.localSeq \in Nat
      /\ b.hlc.l \in Nat /\ b.hlc.c \in Nat /\ b.region \in Nat /\ b.localSeq \in Nat
      /\ c.hlc.l \in Nat /\ c.hlc.c \in Nat /\ c.region \in Nat /\ c.localSeq \in Nat
  BY <1>1
<1>5. ~IdBefore(a, a)
  BY <1>4 DEF IdBefore, HlcBefore
<1>6. IdBefore(a, b) => ~IdBefore(b, a)
  BY <1>4 DEF IdBefore, HlcBefore
<1>7. IdBefore(a, b) /\ IdBefore(b, c) => IdBefore(a, c)
  BY <1>4 DEF IdBefore, HlcBefore
<1>8. a # b => IdBefore(a, b) \/ IdBefore(b, a)
  <2>1. /\ a.hlc = b.hlc <=> a.hlc.l = b.hlc.l /\ a.hlc.c = b.hlc.c
        /\ a = b <=> a.hlc = b.hlc /\ a.region = b.region /\ a.localSeq = b.localSeq
    BY <1>2, <1>3
  <2> QED
    BY <1>4, <2>1 DEF IdBefore, HlcBefore
<1> QED
  BY <1>5, <1>6, <1>7, <1>8

\* The two ways in which one message is before another.
Forks(N, a, b) ==
  \E m, n \in N : /\ m.originLeft = n.originLeft /\ IdBefore(m.id, n.id)
                  /\ Above(N, m.id, a) /\ Above(N, n.id, b)

\* The reference order, by ancestry and by forks.
LEMMA BeforeIs ==
  ASSUME NEW N, NEW a, NEW b
  PROVE  ReferenceBefore(N, a, b) <=> (a # b /\ Above(N, a, b)) \/ Forks(N, a, b)
BY DEF ReferenceBefore, Forks

\* Nodes on two sides of a fork are not above one another.
LEMMA ForksApart ==
  ASSUME NEW N, IsTree(N), NEW a, NEW b \in Ids(N), Forks(N, a, b)
  PROVE  ~Above(N, a, b)
<1> SUFFICES ASSUME Above(N, a, b) PROVE FALSE
  OBVIOUS
<1>1. PICK m \in N, n \in N : /\ m.originLeft = n.originLeft /\ IdBefore(m.id, n.id)
                              /\ Above(N, m.id, a) /\ Above(N, n.id, b)
  BY DEF Forks
<1>2. Above(N, m.id, b)
  BY <1>1, AboveTrans
<1>3. m = n /\ m.id \in MessageIds
  BY <1>1, <1>2, OneSibling DEF IsTree, Ids
<1> QED
  BY <1>1, <1>3, IdOrder

LEMMA ForksApartDown ==
  ASSUME NEW N, IsTree(N), NEW a \in Ids(N), NEW b, Forks(N, a, b)
  PROVE  ~Above(N, b, a)
<1> SUFFICES ASSUME Above(N, b, a) PROVE FALSE
  OBVIOUS
<1>1. PICK m \in N, n \in N : /\ m.originLeft = n.originLeft /\ IdBefore(m.id, n.id)
                              /\ Above(N, m.id, a) /\ Above(N, n.id, b)
  BY DEF Forks
<1>2. Above(N, n.id, a)
  BY <1>1, AboveTrans
<1>3. m = n /\ m.id \in MessageIds
  BY <1>1, <1>2, OneSibling DEF IsTree, Ids
<1> QED
  BY <1>1, <1>3, IdOrder

\* No pair of nodes forks both ways.
LEMMA ForksAsym ==
  ASSUME NEW N, IsTree(N), NEW a \in Ids(N), NEW b \in Ids(N), Forks(N, a, b), Forks(N, b, a)
  PROVE  FALSE
<1>0. Distinct(N) /\ Grounded(N) /\ Ids(N) \subseteq MessageIds
  BY DEF IsTree
<1>1. PICK m \in N, n \in N : /\ m.originLeft = n.originLeft /\ IdBefore(m.id, n.id)
                              /\ Above(N, m.id, a) /\ Above(N, n.id, b)
  BY DEF Forks
<1>2. PICK x \in N, y \in N : /\ x.originLeft = y.originLeft /\ IdBefore(x.id, y.id)
                              /\ Above(N, x.id, b) /\ Above(N, y.id, a)
  BY DEF Forks
<1>3. m.id \in MessageIds /\ n.id \in MessageIds /\ x.id \in MessageIds /\ y.id \in MessageIds
  BY <1>0 DEF Ids
<1>4. m.id # n.id /\ x.id # y.id
  BY <1>1, <1>2, <1>3, IdOrder
<1>5. CASE m.id = y.id
  <2>1. m = y
    BY <1>0, <1>5 DEF Distinct
  <2>2. n = x
    BY <1>0, <1>1, <1>2, <2>1, OneSibling
  <2> QED
    BY <1>1, <1>2, <1>3, <2>1, <2>2, IdOrder
<1>6. CASE m.id # y.id /\ Above(N, m.id, y.id)
  <2>1. y.originLeft \in Ids(N) /\ Above(N, m.id, y.originLeft)
    BY <1>0, <1>6, AboveStrict
  <2>2. Above(N, x.originLeft, x.id)
    BY <1>2, <2>1, AboveOrigin
  <2>3. Above(N, m.id, x.id)
    BY <1>2, <2>1, <2>2, AboveTrans
  <2>4. Above(N, m.id, b)
    BY <1>2, <2>3, AboveTrans
  <2> QED
    BY <1>0, <1>1, <1>4, <2>4, OneSibling
<1>7. CASE m.id # y.id /\ Above(N, y.id, m.id)
  <2>1. m.originLeft \in Ids(N) /\ Above(N, y.id, m.originLeft)
    BY <1>0, <1>7, AboveStrict
  <2>2. Above(N, n.originLeft, n.id)
    BY <1>1, <2>1, AboveOrigin
  <2>3. Above(N, y.id, n.id)
    BY <1>1, <2>1, <2>2, AboveTrans
  <2>4. Above(N, y.id, b)
    BY <1>1, <2>3, AboveTrans
  <2> QED
    BY <1>0, <1>2, <1>4, <2>4, OneSibling
<1>8. Above(N, m.id, y.id) \/ Above(N, y.id, m.id)
  BY <1>0, <1>1, <1>2, AboveComparable
<1> QED
  BY <1>5, <1>6, <1>7, <1>8

\* The reference order is strict.
LEMMA BeforeStrict ==
  ASSUME NEW N, IsTree(N), NEW a \in Ids(N), NEW b \in Ids(N), ReferenceBefore(N, a, b)
  PROVE  a # b /\ ~ReferenceBefore(N, b, a)
<1>0. Distinct(N) /\ Grounded(N)
  BY DEF IsTree
<1>1. a # b
  BY ForksApart, AboveSelf, BeforeIs
<1>2. ASSUME ReferenceBefore(N, b, a) PROVE FALSE
  <2>1. CASE Above(N, a, b) /\ Above(N, b, a)
    BY <1>0, <1>1, <2>1, AboveAntisym
  <2>2. CASE Forks(N, a, b) /\ Above(N, b, a)
    BY <2>2, ForksApartDown
  <2>3. CASE Above(N, a, b) /\ Forks(N, b, a)
    BY <2>3, ForksApartDown
  <2>4. CASE Forks(N, a, b) /\ Forks(N, b, a)
    BY <2>4, ForksAsym
  <2> QED
    BY <1>2, <2>1, <2>2, <2>3, <2>4, BeforeIs
<1> QED
  BY <1>1, <1>2

\* What comes before a node comes before the nodes inserted after it.
LEMMA BeforeChild ==
  ASSUME NEW N, IsTree(N), NEW n \in N, n.originLeft \in Ids(N), NEW a,
         a = n.originLeft \/ ReferenceBefore(N, a, n.originLeft)
  PROVE  ReferenceBefore(N, a, n.id)
<1>0. Distinct(N) /\ Grounded(N)
  BY DEF IsTree
<1>1. Above(N, n.originLeft, n.id)
  BY AboveOrigin
<1>2. CASE Above(N, a, n.originLeft)
  <2>1. Above(N, a, n.id)
    BY <1>1, <1>2, AboveTrans
  <2>2. a # n.id
    BY <1>0, <1>2, Acyclic
  <2> QED
    BY <2>1, <2>2, BeforeIs
<1>3. CASE Forks(N, a, n.originLeft)
  <2>1. Forks(N, a, n.id)
    BY <1>1, <1>3, AboveTrans DEF Forks
  <2> QED
    BY <2>1, BeforeIs
<1> QED
  BY <1>2, <1>3, AboveSelf, BeforeIs

\* A part of a tree: the same nodes, tombstoned or not.
PartOf(N, G) == \A n \in N : \E g \in G : g.id = n.id /\ g.originLeft = n.originLeft

\* What is above in a part is above in the whole.
LEMMA PartAbove ==
  ASSUME NEW N, NEW G, PartOf(N, G), NEW a, NEW b \in Ids(N), Above(N, a, b)
  PROVE  Above(G, a, b)
<1>1. Ids(N) \subseteq Ids(G)
  BY DEF PartOf, Ids
<1>2. ASSUME NEW S \in SUBSET Ids(G), b \in S, Upward(G, S) PROVE a \in S
  <2>1. Upward(N, S \cap Ids(N))
    <3>1. ASSUME NEW n \in N, n.originLeft \in Ids(N), n.id \in S PROVE n.originLeft \in S
      <4>1. PICK g \in G : g.id = n.id /\ g.originLeft = n.originLeft
        BY DEF PartOf
      <4> QED
        BY <1>1, <1>2, <3>1, <4>1 DEF Upward
    <3> QED
      BY <3>1 DEF Upward
  <2>2. a \in S \cap Ids(N)
    BY <1>2, <2>1, AboveIs
  <2> QED
    BY <2>2
<1> QED
  BY <1>2, AboveIs

\* The order of a part is the order of the whole.
LEMMA PartBefore ==
  ASSUME NEW N, NEW G, PartOf(N, G), NEW a \in Ids(N), NEW b \in Ids(N), ReferenceBefore(N, a, b)
  PROVE  ReferenceBefore(G, a, b)
<1>1. CASE a # b /\ Above(N, a, b)
  BY <1>1, PartAbove, BeforeIs
<1>2. CASE Forks(N, a, b)
  <2>1. PICK m \in N, n \in N : /\ m.originLeft = n.originLeft /\ IdBefore(m.id, n.id)
                                /\ Above(N, m.id, a) /\ Above(N, n.id, b)
    BY <1>2 DEF Forks
  <2>2. PICK x \in G : x.id = m.id /\ x.originLeft = m.originLeft
    BY DEF PartOf
  <2>3. PICK y \in G : y.id = n.id /\ y.originLeft = n.originLeft
    BY DEF PartOf
  <2>4. Above(G, x.id, a) /\ Above(G, y.id, b)
    BY <2>1, <2>2, <2>3, PartAbove
  <2>5. Forks(G, a, b)
    BY <2>1, <2>2, <2>3, <2>4 DEF Forks
  <2> QED
    BY <2>5, BeforeIs
<1> QED
  BY <1>1, <1>2, BeforeIs

LEMMA PartGrounded ==
  ASSUME NEW N, NEW G, PartOf(N, G), Grounded(G)
  PROVE  Grounded(N)
<1>1. ASSUME NEW S \in SUBSET N, S # {} PROVE \E n \in S : n.originLeft \notin Ids(S)
  <2> DEFINE T == {g \in G : \E n \in S : g.id = n.id /\ g.originLeft = n.originLeft}
  <2>1. T \in SUBSET G /\ T # {}
    BY <1>1 DEF PartOf
  <2>2. Ids(S) \subseteq Ids(T)
    <3>1. ASSUME NEW n \in S PROVE n.id \in Ids(T)
      <4>1. PICK g \in G : g.id = n.id /\ g.originLeft = n.originLeft
        BY DEF PartOf
      <4>2. g \in T
        BY <4>1
      <4> HIDE DEF T
      <4> QED
        BY <4>1, <4>2 DEF Ids
    <3> QED
      BY <3>1 DEF Ids
  <2>3. PICK g \in T : g.originLeft \notin Ids(T)
    <3> HIDE DEF T
    <3> QED
      BY <2>1 DEF Grounded
  <2>4. PICK n \in S : g.id = n.id /\ g.originLeft = n.originLeft
    BY <2>3
  <2> HIDE DEF T
  <2> QED
    BY <2>2, <2>3, <2>4
<1> QED
  BY <1>1 DEF Grounded

LEMMA PartIsTree ==
  ASSUME NEW N, NEW G, PartOf(N, G), IsTree(G), Distinct(N)
  PROVE  IsTree(N)
<1>1. Ids(N) \subseteq Ids(G)
  BY DEF PartOf, Ids
<1> QED
  BY <1>1, PartGrounded DEF IsTree

\* A new node that no origin names yet.
LEMMA GroundedAdd ==
  ASSUME NEW G, Grounded(G), NEW new, new.originLeft # new.id, \A g \in G : g.originLeft # new.id
  PROVE  Grounded(G \cup {new})
<1>1. ASSUME NEW S \in SUBSET (G \cup {new}), S # {} PROVE \E n \in S : n.originLeft \notin Ids(S)
  <2>1. CASE S \cap G = {}
    <3>1. S = {new}
      BY <1>1, <2>1
    <3> QED
      BY <3>1 DEF Ids
  <2>2. CASE S \cap G # {}
    <3> DEFINE T == S \cap G
    <3>1. T \in SUBSET G /\ T # {} /\ S \subseteq T \cup {new}
      BY <2>2
    <3>2. PICK n \in T : n.originLeft \notin Ids(T)
      <4> HIDE DEF T
      <4> QED
        BY <3>1 DEF Grounded
    <3>3. Ids(S) \subseteq Ids(T) \cup {new.id}
      <4> HIDE DEF T
      <4> QED
        BY <3>1 DEF Ids
    <3>4. n \in S /\ n.originLeft # new.id
      OBVIOUS
    <3> HIDE DEF T
    <3> QED
      BY <3>2, <3>3, <3>4
  <2> QED
    BY <2>1, <2>2
<1> QED
  BY <1>1 DEF Grounded

-------------------------------------------------------------------------------
(* Children in order *)

\* K lists B by ascending ids.
Lists(K, B) ==
  /\ K \in Seq(B)
  /\ \A n \in B : \E i \in 1 .. Len(K) : K[i] = n
  /\ \A i, j \in 1 .. Len(K) : i < j => IdBefore(K[i].id, K[j].id)

Smaller(B, n) == {m \in B : IdBefore(m.id, n.id)}

\* A greater sibling has more smaller siblings.
LEMMA SmallerGrows ==
  ASSUME NEW B, IsFiniteSet(B), Ids(B) \subseteq MessageIds, NEW m \in B, NEW n \in B,
         IdBefore(m.id, n.id)
  PROVE  Cardinality(Smaller(B, m)) < Cardinality(Smaller(B, n))
<1>1. \A x \in B : x.id \in MessageIds
  BY DEF Ids
<1>2. Smaller(B, m) \subseteq Smaller(B, n) /\ m \in Smaller(B, n) /\ m \notin Smaller(B, m)
  BY <1>1, IdOrder DEF Smaller
<1>3. IsFiniteSet(Smaller(B, n))
  BY FS_Subset DEF Smaller
<1>4. /\ IsFiniteSet(Smaller(B, m)) /\ Cardinality(Smaller(B, m)) <= Cardinality(Smaller(B, n))
      /\ Cardinality(Smaller(B, n)) # Cardinality(Smaller(B, m))
  BY <1>2, <1>3, FS_Subset
<1>5. Cardinality(Smaller(B, m)) \in Nat /\ Cardinality(Smaller(B, n)) \in Nat
  BY <1>3, <1>4, FS_CardinalityType
<1> QED
  BY <1>4, <1>5

\* The bucket sort of traverse() lists every child once, by ascending id.
LEMMA ChildrenSorted ==
  ASSUME NEW N, IsFiniteSet(N), Distinct(N), Ids(N) \subseteq MessageIds, NEW p
  PROVE  Lists(Children(N, p), Bucket(N, p))
<1> DEFINE B == Bucket(N, p)
           K == Children(N, p)
           c == Cardinality(B)
           rank == [n \in B |-> Cardinality(Smaller(B, n))]
<1>1. B \subseteq N
  BY DEF Bucket
<1>2. IsFiniteSet(B) /\ c \in Nat
  BY <1>1, FS_Subset, FS_CardinalityType
<1>3. K = [i \in 1 .. c |-> CHOOSE n \in B : Cardinality(Smaller(B, n)) = i - 1]
  BY DEF Children, Smaller
<1>4. Ids(B) \subseteq MessageIds /\ \A m, n \in B : m.id = n.id => m = n
  BY <1>1 DEF Ids, Distinct
<1> HIDE DEF B, K
<1>5. \A n \in B : n.id \in MessageIds
  BY <1>4 DEF Ids
<1>6. ASSUME NEW m \in B, NEW n \in B, IdBefore(m.id, n.id) PROVE rank[m] < rank[n]
  BY <1>2, <1>4, <1>6, SmallerGrows
<1>7. ASSUME NEW n \in B PROVE rank[n] \in 0 .. (c - 1)
  <2>1. Smaller(B, n) \subseteq B \ {n}
    BY <1>5, IdOrder DEF Smaller
  <2>2. IsFiniteSet(B \ {n}) /\ Cardinality(B \ {n}) = c - 1
    BY <1>2, FS_RemoveElement
  <2>3. /\ Cardinality(Smaller(B, n)) <= c - 1 /\ IsFiniteSet(Smaller(B, n))
    BY <2>1, <2>2, FS_Subset
  <2>4. Cardinality(Smaller(B, n)) \in Nat
    BY <2>3, FS_CardinalityType
  <2> QED
    BY <1>2, <2>3, <2>4
<1>8. ASSUME NEW m \in B, NEW n \in B, rank[m] = rank[n] PROVE m = n
  <2>1. SUFFICES ASSUME m # n PROVE FALSE
    OBVIOUS
  <2>2. IdBefore(m.id, n.id) \/ IdBefore(n.id, m.id)
    BY <1>4, <1>5, <2>1, IdOrder
  <2>3. rank[m] < rank[n] \/ rank[n] < rank[m]
    BY <1>6, <2>2
  <2>4. rank[m] \in Int
    BY <1>7
  <2> HIDE DEF rank
  <2> QED
    BY <1>8, <2>3, <2>4
<1>9. rank \in [B -> 0 .. (c - 1)]
  BY <1>7
<1> HIDE DEF rank
<1>10. rank \in Injection(B, 0 .. (c - 1))
  BY <1>8, <1>9 DEF Injection, IsInjective
<1>11. IsFiniteSet(0 .. (c - 1)) /\ Cardinality(0 .. (c - 1)) = c
  <2>1. 0 \in Int /\ c - 1 \in Int
    BY <1>2
  <2> QED
    BY <1>2, <2>1, FS_Interval
<1>12. rank \in Surjection(B, 0 .. (c - 1))
  BY <1>10, <1>11, FS_Injection
<1>13. ASSUME NEW i \in 1 .. c PROVE K[i] \in B /\ rank[K[i]] = i - 1
  <2>1. i - 1 \in 0 .. (c - 1)
    BY <1>2
  <2>2. \E n \in B : rank[n] = i - 1
    BY <1>12, <2>1 DEF Surjection
  <2>3. \E n \in B : Cardinality(Smaller(B, n)) = i - 1
    BY <2>2 DEF rank
  <2>4. K[i] \in B /\ Cardinality(Smaller(B, K[i])) = i - 1
    BY <1>3, <2>3
  <2> QED
    BY <2>4 DEF rank
<1>14. K \in Seq(B) /\ Len(K) = c
  <2>1. K \in [1 .. c -> B]
    BY <1>3, <1>13
  <2> QED
    BY <1>2, <2>1, LenProperties, IsASeq
<1>15. ASSUME NEW n \in B PROVE \E i \in 1 .. Len(K) : K[i] = n
  <2>1. rank[n] \in 0 .. (c - 1)
    BY <1>9
  <2>2. rank[n] + 1 \in 1 .. c /\ (rank[n] + 1) - 1 = rank[n]
    BY <1>2, <2>1
  <2>3. K[rank[n] + 1] = n
    BY <1>8, <1>13, <2>2
  <2> QED
    BY <1>14, <2>2, <2>3
<1>16. ASSUME NEW i \in 1 .. Len(K), NEW j \in 1 .. Len(K), i < j PROVE IdBefore(K[i].id, K[j].id)
  <2>1. /\ K[i] \in B /\ rank[K[i]] = i - 1 /\ i \in Nat
        /\ K[j] \in B /\ rank[K[j]] = j - 1 /\ j \in Nat
    BY <1>13, <1>14
  <2>2. K[i] # K[j]
    BY <1>16, <2>1
  <2>3. IdBefore(K[i].id, K[j].id) \/ IdBefore(K[j].id, K[i].id)
    BY <1>4, <1>5, <2>1, <2>2, IdOrder
  <2>4. IdBefore(K[j].id, K[i].id) => rank[K[j]] < rank[K[i]]
    BY <1>6, <2>1
  <2> QED
    BY <1>16, <2>1, <2>3, <2>4
<1> QED
  BY <1>14, <1>15, <1>16 DEF Lists, B, K

-------------------------------------------------------------------------------
(* The walk of traverse(): c is what was yielded, up to position lo, and the stack *)

Once(c) == \A i, j \in 1 .. Len(c) : c[i] = c[j] => i = j

Descends(c, lo) ==
  \A j \in 1 .. Len(c) :
    c[j].originLeft = HeadId \/ \E i \in 1 .. lo : i < j /\ c[i].id = c[j].originLeft

Gathers(N, c, lo) ==
  \A n \in N :
    n.originLeft = HeadId \/ (\E i \in 1 .. lo : c[i].id = n.originLeft)
      => \E j \in 1 .. Len(c) : c[j] = n

InOrder(N, c) ==
  \A i, j \in 1 .. Len(c) : i < j => ReferenceBefore(N, c[i].id, c[j].id)

Walk(N, c, lo) ==
  /\ c \in Seq(N) /\ lo \in 0 .. Len(c)
  /\ Once(c) /\ Descends(c, lo) /\ Gathers(N, c, lo) /\ InOrder(N, c)

\* What is above a node of the walk was yielded before it.
LEMMA WalkAbove ==
  ASSUME NEW N, IsTree(N), NEW c, NEW lo, Walk(N, c, lo), NEW j \in 1 .. Len(c), NEW a,
         Above(N, a, c[j].id)
  PROVE  \E i \in 1 .. Len(c) : (i = j \/ i <= lo) /\ c[i].id = a
<1>0. /\ c \in Seq(N) /\ Len(c) \in Nat /\ lo \in 0 .. Len(c) /\ Descends(c, lo)
      /\ Distinct(N) /\ HeadId \notin Ids(N)
  BY LenProperties, HeadAssumption DEF Walk, IsTree
<1>1. \A i \in 1 .. Len(c) : c[i] \in N /\ c[i].id \in Ids(N)
  BY <1>0, ElementOfSeq DEF Ids
<1> DEFINE P == {i \in 1 .. lo : i < j}
           S == {c[i].id : i \in P \cup {j}}
<1>2. P \cup {j} \subseteq 1 .. Len(c)
  BY <1>0
<1>3. S \in SUBSET Ids(N) /\ c[j].id \in S
  BY <1>1, <1>2
<1>4. ASSUME NEW n \in N, n.originLeft \in Ids(N), n.id \in S PROVE n.originLeft \in S
  <2>1. PICK k \in P \cup {j} : n.id = c[k].id
    BY <1>4
  <2>2. n = c[k] /\ k \in 1 .. Len(c) /\ k <= j
    BY <1>0, <1>1, <1>2, <2>1 DEF Distinct
  <2>3. PICK i \in 1 .. lo : i < k /\ c[i].id = n.originLeft
    BY <1>0, <1>4, <2>2 DEF Descends
  <2>4. i \in P
    BY <1>0, <2>2, <2>3
  <2> QED
    BY <2>3, <2>4
<1>5. Upward(N, S)
  BY <1>4 DEF Upward
<1>6. a \in S
  <2> HIDE DEF S
  <2> QED
    BY <1>3, <1>5, AboveIs
<1> QED
  BY <1>2, <1>6

\* d is c with K put in behind the next node.
Spliced(c, lo, K, d) ==
  /\ Len(d) = Len(c) + Len(K)
  /\ \A i \in 1 .. lo + 1 : d[i] = c[i]
  /\ \A i \in 1 .. Len(K) : d[lo + 1 + i] = K[i]
  /\ \A i \in lo + 2 .. Len(c) : d[i + Len(K)] = c[i]

\* The places of d.
OldPlace(c, lo, K, k, i) ==
  i \in 1 .. Len(c) /\ k = IF i <= lo + 1 THEN i ELSE i + Len(K)

LEMMA Places ==
  ASSUME NEW N, NEW c \in Seq(N), NEW K \in Seq(N), NEW lo \in 0 .. Len(c), lo < Len(c), NEW d,
         Spliced(c, lo, K, d)
  PROVE  /\ \A k \in 1 .. Len(d) :
              (\E i \in 1 .. Len(c) : OldPlace(c, lo, K, k, i)) \/ (\E i \in 1 .. Len(K) : k = lo + 1 + i)
         /\ \A k : \A i \in 1 .. Len(c) : OldPlace(c, lo, K, k, i) => k \in 1 .. Len(d) /\ d[k] = c[i]
         /\ \A i \in 1 .. Len(c) : \E k : OldPlace(c, lo, K, k, i)
         /\ \A i \in 1 .. Len(K) : lo + 1 + i \in 1 .. Len(d) /\ d[lo + 1 + i] = K[i]
<1>0. Len(c) \in Nat /\ Len(K) \in Nat /\ lo \in Nat /\ Len(d) = Len(c) + Len(K)
  BY LenProperties DEF Spliced
<1>1. ASSUME NEW k \in 1 .. Len(d), ~\E i \in 1 .. Len(K) : k = lo + 1 + i
      PROVE  \E i \in 1 .. Len(c) : OldPlace(c, lo, K, k, i)
  <2>1. CASE k <= lo + 1
    BY <1>0, <2>1 DEF OldPlace
  <2>2. CASE k > lo + 1
    <3>1. ~(k - (lo + 1) \in 1 .. Len(K))
      BY <1>0, <1>1
    <3>2. k > lo + 1 + Len(K)
      BY <1>0, <2>2, <3>1
    <3>3. k - Len(K) \in 1 .. Len(c) /\ k = (k - Len(K)) + Len(K) /\ ~(k - Len(K) <= lo + 1)
      BY <1>0, <3>2
    <3> QED
      BY <3>3 DEF OldPlace
  <2> QED
    BY <1>0, <2>1, <2>2
<1>2. ASSUME NEW k, NEW i \in 1 .. Len(c), OldPlace(c, lo, K, k, i)
      PROVE  k \in 1 .. Len(d) /\ d[k] = c[i]
  <2>1. CASE i <= lo + 1
    <3>1. k = i /\ i \in 1 .. lo + 1
      BY <1>0, <1>2, <2>1 DEF OldPlace
    <3>2. d[i] = c[i]
      BY <3>1 DEF Spliced
    <3>3. i \in 1 .. Len(d)
      BY <1>0
    <3> QED
      BY <3>1, <3>2, <3>3
  <2>2. CASE ~(i <= lo + 1)
    <3>1. k = i + Len(K) /\ i \in lo + 2 .. Len(c)
      BY <1>0, <1>2, <2>2 DEF OldPlace
    <3>2. d[i + Len(K)] = c[i]
      BY <3>1 DEF Spliced
    <3>3. i + Len(K) \in 1 .. Len(d)
      BY <1>0, <3>1
    <3> QED
      BY <3>1, <3>2, <3>3
  <2> QED
    BY <2>1, <2>2
<1>3. \A i \in 1 .. Len(c) : \E k : OldPlace(c, lo, K, k, i)
  BY DEF OldPlace
<1>4. \A i \in 1 .. Len(K) : lo + 1 + i \in 1 .. Len(d) /\ d[lo + 1 + i] = K[i]
  BY <1>0 DEF Spliced
<1> QED
  BY <1>1, <1>2, <1>3, <1>4

\* A node is popped and yielded, and its children are pushed.
LEMMA WalkStep ==
  ASSUME NEW N, IsTree(N), NEW c, NEW lo, Walk(N, c, lo), lo < Len(c),
         NEW K, Lists(K, Bucket(N, c[lo + 1].id)), NEW d \in Seq(N), Spliced(c, lo, K, d)
  PROVE  Walk(N, d, lo + 1)
<1> DEFINE h == c[lo + 1]
           Old(k, i) == OldPlace(c, lo, K, k, i)
<1>0. /\ c \in Seq(N) /\ Len(c) \in Nat /\ lo \in Nat /\ lo + 1 \in 1 .. Len(c)
      /\ Once(c) /\ Descends(c, lo) /\ Gathers(N, c, lo) /\ InOrder(N, c)
      /\ Distinct(N) /\ Grounded(N) /\ HeadId \notin Ids(N) /\ Ids(N) \subseteq MessageIds
  BY LenProperties, HeadAssumption DEF Walk, IsTree
<1>1. /\ K \in Seq(N) /\ Len(K) \in Nat
      /\ \A i \in 1 .. Len(K) : K[i] \in N /\ K[i].originLeft = h.id
      /\ \A n \in N : n.originLeft = h.id => \E i \in 1 .. Len(K) : K[i] = n
      /\ \A i, j \in 1 .. Len(K) : i < j => IdBefore(K[i].id, K[j].id)
  <2>1. K \in Seq(Bucket(N, h.id)) /\ Bucket(N, h.id) \subseteq N
    BY DEF Lists, Bucket
  <2>2. \A i \in 1 .. Len(K) : K[i] \in Bucket(N, h.id)
    BY <2>1, ElementOfSeq
  <2>3. Len(K) \in Nat /\ K \in [1 .. Len(K) -> Bucket(N, h.id)]
    BY <2>1, LenProperties
  <2>4. K \in Seq(N)
    BY <2>1, <2>2, <2>3, IsASeq
  <2> QED
    BY <2>2, <2>3, <2>4 DEF Lists, Bucket
<1>2. \A i \in 1 .. Len(c) : c[i] \in N /\ c[i].id \in Ids(N)
  BY <1>0, ElementOfSeq DEF Ids
<1>3. h \in N /\ h.id \in Ids(N) /\ h.id # HeadId
  BY <1>0, <1>2
<1>4. lo \in 0 .. Len(c)
  BY <1>0
<1>5. /\ \A k \in 1 .. Len(d) :
           (\E i \in 1 .. Len(c) : Old(k, i)) \/ (\E i \in 1 .. Len(K) : k = lo + 1 + i)
      /\ \A k : \A i \in 1 .. Len(c) : Old(k, i) => k \in 1 .. Len(d) /\ d[k] = c[i]
      /\ \A i \in 1 .. Len(c) : \E k : Old(k, i)
      /\ \A i \in 1 .. Len(K) : lo + 1 + i \in 1 .. Len(d) /\ d[lo + 1 + i] = K[i]
  BY <1>0, <1>1, <1>4, Places
<1>6. ASSUME NEW i \in 1 .. lo + 1 PROVE i \in 1 .. Len(c) /\ Old(i, i)
  BY <1>0, <1>6 DEF OldPlace
<1>7. ASSUME NEW j \in 1 .. Len(c), NEW i \in 1 .. lo, c[i].id = h.id PROVE FALSE
  <2>1. c[i] = h /\ i \in 1 .. Len(c) /\ i # lo + 1
    BY <1>0, <1>2, <1>3, <1>7 DEF Distinct
  <2> QED
    BY <1>0, <2>1 DEF Once
<1>8. ASSUME NEW i \in 1 .. Len(K), NEW j \in 1 .. Len(c), K[i] = c[j] PROVE FALSE
  <2>1. c[j].originLeft = h.id
    BY <1>1, <1>8
  <2>2. \E x \in 1 .. lo : c[x].id = h.id
    BY <1>0, <1>3, <2>1 DEF Descends
  <2> QED
    BY <1>7, <2>2
<1>9. Once(d)
  <2> SUFFICES ASSUME NEW k \in 1 .. Len(d), NEW l \in 1 .. Len(d), d[k] = d[l] PROVE k = l
    BY DEF Once
  <2>1. ASSUME NEW i \in 1 .. Len(c), NEW j \in 1 .. Len(c), Old(k, i), Old(l, j) PROVE k = l
    <3>1. c[i] = c[j]
      BY <1>5, <2>1
    <3>2. i = j
      BY <1>0, <3>1 DEF Once
    <3> QED
      BY <2>1, <3>2 DEF OldPlace
  <2>2. ASSUME NEW i \in 1 .. Len(c), NEW j \in 1 .. Len(K),
               \/ Old(k, i) /\ l = lo + 1 + j
               \/ Old(l, i) /\ k = lo + 1 + j
        PROVE  FALSE
    <3>1. c[i] = K[j]
      BY <1>5, <2>2
    <3> QED
      BY <1>8, <3>1
  <2>3. ASSUME NEW i \in 1 .. Len(K), NEW j \in 1 .. Len(K), k = lo + 1 + i, l = lo + 1 + j PROVE k = l
    <3>1. K[i] = K[j]
      BY <1>5, <2>3
    <3>2. K[i].id \in MessageIds
      BY <1>0, <1>1 DEF Ids
    <3>3. ~IdBefore(K[i].id, K[j].id) /\ ~IdBefore(K[j].id, K[i].id)
      BY <3>1, <3>2, IdOrder
    <3>4. ~(i < j) /\ ~(j < i)
      BY <1>1, <3>3
    <3> QED
      BY <1>1, <2>3, <3>4
  <2> HIDE DEF Old
  <2> QED
    BY <1>5, <2>1, <2>2, <2>3
<1>10. Descends(d, lo + 1)
  <2> SUFFICES ASSUME NEW k \in 1 .. Len(d), d[k].originLeft # HeadId
               PROVE  \E i \in 1 .. lo + 1 : i < k /\ d[i].id = d[k].originLeft
    BY DEF Descends
  <2>1. ASSUME NEW j \in 1 .. Len(c), Old(k, j) PROVE \E i \in 1 .. lo + 1 : i < k /\ d[i].id = d[k].originLeft
    <3>1. d[k] = c[j]
      BY <1>5, <2>1
    <3>2. PICK i \in 1 .. lo : i < j /\ c[i].id = c[j].originLeft
      BY <1>0, <3>1 DEF Descends
    <3>3. i \in 1 .. lo + 1 /\ d[i] = c[i]
      BY <1>0, <1>5, <1>6
    <3>4. j <= k
      BY <1>0, <1>1, <2>1 DEF OldPlace
    <3>5. i < k
      BY <1>0, <3>2, <3>4
    <3> QED
      BY <3>1, <3>2, <3>3, <3>5
  <2>2. ASSUME NEW j \in 1 .. Len(K), k = lo + 1 + j PROVE \E i \in 1 .. lo + 1 : i < k /\ d[i].id = d[k].originLeft
    <3>1. d[k] = K[j] /\ K[j].originLeft = h.id
      BY <1>1, <1>5, <2>2
    <3>2. lo + 1 \in 1 .. lo + 1 /\ d[lo + 1] = h /\ lo + 1 < k
      BY <1>0, <1>1, <1>5, <1>6, <2>2
    <3> QED
      BY <3>1, <3>2
  <2> HIDE DEF Old
  <2> QED
    BY <1>5, <2>1, <2>2
<1>11. Gathers(N, d, lo + 1)
  <2>1. ASSUME NEW n \in N, NEW j \in 1 .. Len(c), c[j] = n PROVE \E k \in 1 .. Len(d) : d[k] = n
    BY <1>5, <2>1
  <2>2. ASSUME NEW n \in N, n.originLeft = HeadId PROVE \E k \in 1 .. Len(d) : d[k] = n
    BY <1>0, <2>1, <2>2 DEF Gathers
  <2>3. ASSUME NEW n \in N, NEW i \in 1 .. lo + 1, d[i].id = n.originLeft PROVE \E k \in 1 .. Len(d) : d[k] = n
    <3>1. d[i] = c[i]
      BY <1>5, <1>6
    <3>2. CASE i \in 1 .. lo
      BY <1>0, <2>1, <2>3, <3>1, <3>2 DEF Gathers
    <3>3. CASE i = lo + 1
      <4>1. n.originLeft = h.id
        BY <2>3, <3>1, <3>3
      <4>2. PICK x \in 1 .. Len(K) : K[x] = n
        BY <1>1, <4>1
      <4> QED
        BY <1>5, <4>2
    <3> QED
      BY <1>0, <3>2, <3>3
  <2> QED
    BY <2>2, <2>3 DEF Gathers
<1>12. InOrder(N, d)
  <2> SUFFICES ASSUME NEW k \in 1 .. Len(d), NEW l \in 1 .. Len(d), k < l
               PROVE  ReferenceBefore(N, d[k].id, d[l].id)
    BY DEF InOrder
  <2>1. ASSUME NEW i \in 1 .. Len(c), NEW j \in 1 .. Len(c), Old(k, i), Old(l, j)
        PROVE  ReferenceBefore(N, d[k].id, d[l].id)
    <3>1. d[k] = c[i] /\ d[l] = c[j]
      BY <1>5, <2>1
    <3>2. i < j
      BY <1>0, <1>1, <2>1 DEF OldPlace
    <3> QED
      BY <1>0, <3>1, <3>2 DEF InOrder
  <2>2. ASSUME NEW i \in 1 .. Len(c), NEW j \in 1 .. Len(K), Old(k, i), l = lo + 1 + j
        PROVE  ReferenceBefore(N, d[k].id, d[l].id)
    <3>1. d[k] = c[i] /\ d[l] = K[j] /\ K[j] \in N /\ K[j].originLeft = h.id
      BY <1>1, <1>5, <2>2
    <3>2. i <= lo + 1
      BY <1>0, <1>1, <2>2 DEF OldPlace
    <3>3. i = lo + 1 \/ i < lo + 1
      BY <1>0, <3>2
    <3>4. c[i].id = h.id \/ ReferenceBefore(N, c[i].id, h.id)
      BY <1>0, <3>3 DEF InOrder
    <3> HIDE DEF h
    <3> QED
      BY <1>3, <3>1, <3>4, BeforeChild
  <2>3. ASSUME NEW i \in 1 .. Len(K), NEW j \in 1 .. Len(c), k = lo + 1 + i, Old(l, j)
        PROVE  ReferenceBefore(N, d[k].id, d[l].id)
    <3>1. d[k] = K[i] /\ d[l] = c[j] /\ K[i] \in N /\ K[i].originLeft = h.id
      BY <1>1, <1>5, <2>3
    <3>2. lo + 1 < j
      BY <1>0, <1>1, <2>3 DEF OldPlace
    <3>3. ReferenceBefore(N, h.id, c[j].id)
      BY <1>0, <3>2 DEF InOrder
    <3>4. ~(h.id # c[j].id /\ Above(N, h.id, c[j].id))
      <4> SUFFICES ASSUME h.id # c[j].id, Above(N, h.id, c[j].id) PROVE FALSE
        OBVIOUS
      <4> HIDE DEF h
      <4>1. PICK x \in 1 .. Len(c) : (x = j \/ x <= lo) /\ c[x].id = h.id
        BY WalkAbove
      <4>2. x \in 1 .. lo
        BY <1>0, <4>1
      <4> QED
        BY <1>7, <4>1, <4>2
    <3>5. Forks(N, h.id, c[j].id)
      BY <3>3, <3>4, BeforeIs
    <3>6. Above(N, h.id, K[i].id)
      BY <1>3, <3>1, AboveOrigin
    <3>7. Forks(N, K[i].id, c[j].id)
      BY <3>5, <3>6, AboveTrans DEF Forks
    <3> QED
      BY <3>1, <3>7, BeforeIs
  <2>4. ASSUME NEW i \in 1 .. Len(K), NEW j \in 1 .. Len(K), k = lo + 1 + i, l = lo + 1 + j
        PROVE  ReferenceBefore(N, d[k].id, d[l].id)
    <3>1. /\ d[k] = K[i] /\ d[l] = K[j] /\ K[i] \in N /\ K[j] \in N
          /\ K[i].originLeft = K[j].originLeft
      BY <1>1, <1>5, <2>4
    <3>2. i < j
      BY <1>0, <1>1, <2>4
    <3>3. IdBefore(K[i].id, K[j].id)
      BY <1>1, <3>2
    <3>4. Forks(N, K[i].id, K[j].id)
      BY <3>1, <3>3, AboveSelf DEF Forks
    <3> QED
      BY <3>1, <3>4, BeforeIs
  <2> HIDE DEF Old
  <2> QED
    BY <1>5, <2>1, <2>2, <2>3, <2>4
<1>13. lo + 1 \in 0 .. Len(d)
  BY <1>0, <1>1 DEF Spliced
<1> QED
  BY <1>9, <1>10, <1>11, <1>12, <1>13 DEF Walk

\* The start: the children of the head are on the stack.
LEMMA WalkStart ==
  ASSUME NEW N, IsTree(N), NEW c, Lists(c, Bucket(N, HeadId))
  PROVE  Walk(N, c, 0)
<1>1. c \in Seq(Bucket(N, HeadId)) /\ Bucket(N, HeadId) \subseteq N
  BY DEF Lists, Bucket
<1>2. Len(c) \in Nat /\ c \in [1 .. Len(c) -> Bucket(N, HeadId)]
  BY <1>1, LenProperties
<1>3. \A i \in 1 .. Len(c) : c[i] \in N /\ c[i].originLeft = HeadId /\ c[i].id \in MessageIds
  BY <1>2 DEF Bucket, IsTree, Ids
<1>4. c \in Seq(N) /\ 0 \in 0 .. Len(c)
  BY <1>1, <1>2, <1>3, IsASeq
<1>5. Once(c)
  <2>1. ASSUME NEW i \in 1 .. Len(c), NEW j \in 1 .. Len(c), c[i] = c[j] PROVE i = j
    <3>1. ~IdBefore(c[i].id, c[j].id) /\ ~IdBefore(c[j].id, c[i].id)
      BY <1>3, <2>1, IdOrder
    <3>2. ~(i < j) /\ ~(j < i)
      BY <3>1 DEF Lists
    <3> QED
      BY <1>2, <3>2
  <2> QED
    BY <2>1 DEF Once
<1>6. Descends(c, 0) /\ Gathers(N, c, 0)
  <2>1. \A n \in N : n.originLeft = HeadId => \E j \in 1 .. Len(c) : c[j] = n
    BY DEF Lists, Bucket
  <2>2. ~\E i : i \in 1 .. 0
    OBVIOUS
  <2> QED
    BY <1>3, <2>1, <2>2 DEF Descends, Gathers
<1>7. InOrder(N, c)
  <2>1. ASSUME NEW i \in 1 .. Len(c), NEW j \in 1 .. Len(c), i < j
        PROVE  ReferenceBefore(N, c[i].id, c[j].id)
    <3>1. Forks(N, c[i].id, c[j].id)
      <4>1. IdBefore(c[i].id, c[j].id)
        BY <2>1 DEF Lists
      <4>2. c[i] \in N /\ c[j] \in N /\ c[i].originLeft = c[j].originLeft
        BY <1>3
      <4>3. Above(N, c[i].id, c[i].id) /\ Above(N, c[j].id, c[j].id)
        BY AboveSelf
      <4> QED
        BY <4>1, <4>2, <4>3 DEF Forks
    <3> QED
      BY <3>1, BeforeIs
  <2> QED
    BY <2>1 DEF InOrder
<1> QED
  BY <1>4, <1>5, <1>6, <1>7 DEF Walk

\* The end: everything on the stack has been yielded.
LEMMA WalkEnd ==
  ASSUME NEW N, IsTree(N), NEW c, Walk(N, c, Len(c))
  PROVE  \A n \in N : (\E i \in 1 .. Len(c) : c[i] = n) <=> Rooted(N, n.id)
<1>0. /\ c \in Seq(N) /\ Len(c) \in Nat /\ Descends(c, Len(c)) /\ Gathers(N, c, Len(c))
      /\ Distinct(N) /\ Grounded(N) /\ HeadId \notin Ids(N)
  BY LenProperties, HeadAssumption DEF Walk, IsTree
<1>1. \A i \in 1 .. Len(c) : c[i] \in N
  BY <1>0, ElementOfSeq
<1>2. \A id : Rooted(N, id) <=>
        \A n \in N : Above(N, n.id, id) => n.originLeft = HeadId \/ n.originLeft \in Ids(N)
  BY DEF Rooted, Ids
<1>3. ASSUME NEW j \in 1 .. Len(c), NEW n \in N, Above(N, n.id, c[j].id)
      PROVE  n.originLeft = HeadId \/ n.originLeft \in Ids(N)
  <2>1. \E k \in 1 .. Len(c) : c[k].id = n.id
    <3>1. \E k \in 1 .. Len(c) : (k = j \/ k <= Len(c)) /\ c[k].id = n.id
      BY <1>3, WalkAbove
    <3> QED
      BY <3>1
  <2>2. PICK k \in 1 .. Len(c) : c[k] = n
    BY <1>0, <1>1, <2>1 DEF Distinct
  <2> QED
    BY <1>0, <1>1, <2>2 DEF Descends, Ids
<1> DEFINE S == {n \in N : Rooted(N, n.id) /\ ~\E i \in 1 .. Len(c) : c[i] = n}
<1>4. ASSUME NEW n \in S PROVE n.originLeft \in Ids(S)
  <2>1. n.originLeft # HeadId
    BY <1>0 DEF Gathers
  <2>2. n.originLeft \in Ids(N)
    BY <1>2, <2>1, AboveSelf
  <2>3. PICK m \in N : m.id = n.originLeft
    BY <2>2 DEF Ids
  <2>4. ~\E i \in 1 .. Len(c) : c[i] = m
    BY <1>0, <2>3 DEF Gathers
  <2>5. \A x \in N : Above(N, x.id, m.id) => Above(N, x.id, n.id)
    BY <2>2, <2>3, AboveOrigin, AboveTrans
  <2>6. Rooted(N, m.id)
    BY <1>2, <2>5
  <2>7. m \in S
    BY <2>4, <2>6
  <2> HIDE DEF S
  <2> QED
    BY <2>3, <2>7 DEF Ids
<1>5. S \in SUBSET N
  OBVIOUS
<1>6. S = {}
  <2> HIDE DEF S
  <2> QED
    BY <1>0, <1>4, <1>5 DEF Grounded
<1>7. \A n \in N : Rooted(N, n.id) => \E i \in 1 .. Len(c) : c[i] = n
  BY <1>6
<1>8. \A j \in 1 .. Len(c) : Rooted(N, c[j].id)
  BY <1>2, <1>3
<1> QED
  BY <1>7, <1>8

-------------------------------------------------------------------------------
(* traverse() is such a walk *)

\* A set of naturals that is not empty has a least member.
LEMMA LeastNat ==
  ASSUME NEW T, T \subseteq Nat, T # {}
  PROVE  \E x \in T : \A y \in T : x <= y
<1>1. PICK t \in T : TRUE
  OBVIOUS
<1>2. PICK x \in T : \A y \in T : <<y, x>> \notin OpToRel(<, Nat)
  BY WFMin, NatLessThanWellFounded
<1>3. \A y \in T : ~(y < x)
  BY <1>2 DEF OpToRel
<1> QED
  BY <1>3

\* Induction on the naturals, for a set.
LEMMA Inducts ==
  ASSUME NEW S, 0 \in S, \A n \in Nat : n \in S => n + 1 \in S
  PROVE  Nat \subseteq S
<1> DEFINE T == Nat \ S
<1>1. SUFFICES ASSUME T # {} PROVE FALSE
  OBVIOUS
<1>2. PICK x \in T : \A y \in T : x <= y
  <2>1. T \subseteq Nat
    OBVIOUS
  <2> HIDE DEF T
  <2> QED
    BY <1>1, <2>1, LeastNat
<1>3. x - 1 \in Nat /\ ~(x <= x - 1) /\ x = (x - 1) + 1
  OBVIOUS
<1>4. x - 1 \in S
  BY <1>2, <1>3
<1> QED
  BY <1>3, <1>4

\* One turn of the loop of traverse().
Turn(N, s) ==
  IF s.stack = <<>> THEN s
  ELSE [stack |-> Children(N, Head(s.stack).id) \o Tail(s.stack), out |-> Append(s.out, Head(s.stack))]

Begin(N) == [stack |-> Children(N, HeadId), out |-> <<>>]

IsLoop(g, N, L) == g = [k \in 0 .. L |-> IF k = 0 THEN Begin(N) ELSE Turn(N, g[k - 1])]

\* traverse(), as the loop it is.
LEMMA TraverseIs ==
  ASSUME NEW N
  PROVE  Traverse(N) = (CHOOSE g : IsLoop(g, N, Cardinality(N)))[Cardinality(N)].out
BY DEF Traverse, IsLoop, Begin, Turn

\* The loop is defined for any number of turns.
LEMMA LoopExists ==
  ASSUME NEW N, NEW L \in Nat
  PROVE  \E g : IsLoop(g, N, L)
<1> DEFINE Is(g, k) == IsLoop(g, N, k)
           S == {k \in Nat : \E g : Is(g, k)}
<1>1. 0 \in S
  <2> DEFINE g == [k \in 0 .. 0 |-> Begin(N)]
  <2>1. \A k \in 0 .. 0 : k = 0
    OBVIOUS
  <2>2. Is(g, 0)
    BY <2>1 DEF IsLoop
  <2> HIDE DEF Is
  <2> QED
    BY <2>2
<1>2. ASSUME NEW k \in Nat, k \in S PROVE k + 1 \in S
  <2>1. PICK g : Is(g, k)
    BY <1>2
  <2> DEFINE z == k + 1
             h == [i \in 0 .. z |-> IF i = z THEN Turn(N, g[k]) ELSE g[i]]
             v(i) == IF i = 0 THEN Begin(N) ELSE Turn(N, h[i - 1])
  <2>2. \A i \in 0 .. k : g[i] = IF i = 0 THEN Begin(N) ELSE Turn(N, g[i - 1])
    BY <2>1, Zenon DEF IsLoop
  <2>3. z \in Nat /\ z # 0 /\ z - 1 = k /\ k \in 0 .. z /\ k # z /\ k \in 0 .. k
    OBVIOUS
  <2>4. ASSUME NEW i \in 0 .. z PROVE h[i] = v(i)
    <3>1. CASE i = z
      <4>1. h[i] = Turn(N, g[k]) /\ h[k] = g[k]
        BY <2>3, <3>1
      <4> HIDE DEF h, z
      <4> QED
        BY <2>3, <3>1, <4>1
    <3>2. CASE i # z
      <4>1. i \in 0 .. k /\ h[i] = g[i]
        BY <3>2
      <4>2. CASE i = 0
        <5> HIDE DEF h
        <5> QED
          BY <2>2, <4>1, <4>2
      <4>3. CASE i # 0
        <5>1. i - 1 \in 0 .. z /\ i - 1 # z
          BY <4>1, <4>3
        <5>2. h[i - 1] = g[i - 1]
          BY <5>1
        <5> HIDE DEF h
        <5> QED
          BY <2>2, <4>1, <4>3, <5>2
      <4> QED
        BY <4>2, <4>3
    <3> QED
      BY <3>1, <3>2
  <2>5. h = [i \in 0 .. z |-> h[i]]
    OBVIOUS
  <2> HIDE DEF h
  <2>6. h = [i \in 0 .. z |-> v(i)]
    BY <2>4, <2>5
  <2>7. Is(h, z)
    BY <2>6, Zenon DEF IsLoop
  <2> HIDE DEF Is
  <2> QED
    BY <2>7
<1> HIDE DEF Is
<1>3. Nat \subseteq S
  <2> HIDE DEF S
  <2> QED
    BY <1>1, <1>2, Inducts
<1>4. \E g : Is(g, L)
  BY <1>3
<1> QED
  BY <1>4 DEF Is

\* The turns, one by one.
LEMMA Loop ==
  ASSUME NEW N, Cardinality(N) \in Nat
  PROVE  \E g : /\ Traverse(N) = g[Cardinality(N)].out
                /\ g[0] = Begin(N)
                /\ \A k \in 1 .. Cardinality(N) : g[k] = Turn(N, g[k - 1])
<1> DEFINE L == Cardinality(N)
           g == CHOOSE f : IsLoop(f, N, L)
<1>1. IsLoop(g, N, L)
  <2>1. \E f : IsLoop(f, N, L)
    BY LoopExists
  <2> QED
    BY <2>1
<1>2. Traverse(N) = g[L].out
  BY TraverseIs
<1> HIDE DEF g
<1>3. \A k \in 0 .. L : g[k] = IF k = 0 THEN Begin(N) ELSE Turn(N, g[k - 1])
  BY <1>1, Zenon DEF IsLoop
<1>4. 0 \in 0 .. L /\ \A k \in 1 .. L : k \in 0 .. L /\ k # 0
  OBVIOUS
<1>5. g[0] = Begin(N) /\ \A k \in 1 .. L : g[k] = Turn(N, g[k - 1])
  BY <1>3, <1>4, Zenon
<1> QED
  BY <1>2, <1>5

\* A turn splices the children in after the node that is yielded.
LEMMA SplicedTurn ==
  ASSUME NEW N, NEW out \in Seq(N), NEW stack \in Seq(N), stack # <<>>, NEW K \in Seq(N)
  PROVE  LET c == out \o stack
             d == Append(out, Head(stack)) \o (K \o Tail(stack))
         IN  /\ d \in Seq(N) /\ Spliced(c, Len(out), K, d)
             /\ Append(out, Head(stack)) \in Seq(N) /\ K \o Tail(stack) \in Seq(N)
             /\ c[Len(out) + 1] = Head(stack) /\ Len(out) < Len(c)
             /\ Len(Append(out, Head(stack))) = Len(out) + 1
<1> DEFINE h == Head(stack)
           t == Tail(stack)
           o == Append(out, h)
           r == K \o t
           c == out \o stack
           d == o \o r
<1>0. Len(out) \in Nat /\ Len(stack) \in Nat /\ Len(K) \in Nat
  BY LenProperties
<1>1. /\ h \in N /\ t \in Seq(N) /\ Len(t) = Len(stack) - 1 /\ h = stack[1]
      /\ \A i \in 1 .. Len(t) : t[i] = stack[i + 1]
  BY HeadTailProperties
<1>2. Len(stack) >= 1 /\ Len(t) \in Nat
  BY <1>0, <1>1, LenProperties
<1>3. /\ o \in Seq(N) /\ Len(o) = Len(out) + 1 /\ o[Len(out) + 1] = h
      /\ \A i \in 1 .. Len(out) : o[i] = out[i]
  BY <1>1, AppendProperties
<1>4. /\ r \in Seq(N) /\ Len(r) = Len(K) + Len(t)
      /\ \A i \in 1 .. Len(K) + Len(t) : r[i] = IF i <= Len(K) THEN K[i] ELSE t[i - Len(K)]
  BY <1>1, ConcatProperties
<1>5. /\ c \in Seq(N) /\ Len(c) = Len(out) + Len(stack)
      /\ \A i \in 1 .. Len(out) + Len(stack) : c[i] = IF i <= Len(out) THEN out[i] ELSE stack[i - Len(out)]
  BY ConcatProperties
<1> HIDE DEF o, r, h, t
<1>6. /\ d \in Seq(N) /\ Len(d) = Len(o) + Len(r)
      /\ \A i \in 1 .. Len(o) + Len(r) : d[i] = IF i <= Len(o) THEN o[i] ELSE r[i - Len(o)]
  <2>1. o \in Seq(N) /\ r \in Seq(N)
    BY <1>3, <1>4
  <2> QED
    BY <2>1, ConcatProperties
<1> HIDE DEF c, d
<1>7. Len(d) = Len(c) + Len(K) /\ Len(out) < Len(c)
  BY <1>0, <1>1, <1>2, <1>3, <1>4, <1>5, <1>6
<1>8. c[Len(out) + 1] = h
  <2>1. Len(out) + 1 \in 1 .. Len(out) + Len(stack) /\ ~(Len(out) + 1 <= Len(out)) /\ (Len(out) + 1) - Len(out) = 1
    BY <1>0, <1>2
  <2> QED
    BY <1>1, <1>5, <2>1
<1>9. ASSUME NEW i \in 1 .. Len(out) + 1 PROVE d[i] = c[i]
  <2>1. i \in 1 .. Len(o) + Len(r) /\ i <= Len(o) /\ i \in 1 .. Len(out) + Len(stack)
    BY <1>0, <1>2, <1>3, <1>4
  <2>2. d[i] = o[i]
    BY <1>6, <2>1
  <2>3. CASE i = Len(out) + 1
    BY <1>3, <1>8, <2>2, <2>3
  <2>4. CASE i <= Len(out)
    <3>1. i \in 1 .. Len(out)
      BY <1>0, <2>4
    <3>2. c[i] = out[i]
      BY <1>5, <2>1, <2>4
    <3> QED
      BY <1>3, <2>2, <3>1, <3>2
  <2> QED
    BY <1>0, <2>3, <2>4
<1>10. ASSUME NEW i \in 1 .. Len(K) PROVE d[Len(out) + 1 + i] = K[i]
  <2> DEFINE x == Len(out) + 1 + i
  <2>1. /\ x \in 1 .. Len(o) + Len(r) /\ ~(x <= Len(o)) /\ x - Len(o) = i
        /\ i \in 1 .. Len(K) + Len(t) /\ i <= Len(K)
    BY <1>0, <1>2, <1>3, <1>4
  <2> HIDE DEF x
  <2>2. d[x] = r[i]
    BY <1>6, <2>1
  <2>3. r[i] = K[i]
    BY <1>4, <2>1
  <2> QED
    BY <2>2, <2>3 DEF x
<1>11. ASSUME NEW i \in Len(out) + 2 .. Len(c) PROVE d[i + Len(K)] = c[i]
  <2> DEFINE x == i + Len(K)
             y == i - (Len(out) + 1)
  <2>1. /\ x \in 1 .. Len(o) + Len(r) /\ ~(x <= Len(o)) /\ x - Len(o) = Len(K) + y
        /\ Len(K) + y \in 1 .. Len(K) + Len(t) /\ ~(Len(K) + y <= Len(K)) /\ (Len(K) + y) - Len(K) = y
        /\ y \in 1 .. Len(t) /\ y + 1 = i - Len(out)
        /\ i \in 1 .. Len(out) + Len(stack) /\ ~(i <= Len(out))
    BY <1>0, <1>1, <1>2, <1>3, <1>4, <1>5
  <2> HIDE DEF x, y
  <2>2. d[x] = r[Len(K) + y]
    BY <1>6, <2>1
  <2>3. r[Len(K) + y] = t[y]
    BY <1>4, <2>1
  <2>4. t[y] = stack[y + 1]
    BY <1>1, <2>1
  <2>5. c[i] = stack[i - Len(out)]
    BY <1>5, <2>1
  <2> QED
    BY <2>1, <2>2, <2>3, <2>4, <2>5 DEF x
<1>12. Spliced(c, Len(out), K, d)
  BY <1>7, <1>9, <1>10, <1>11 DEF Spliced
<1> QED
  BY <1>3, <1>4, <1>6, <1>7, <1>8, <1>12 DEF c, d, o, r, h, t

\* Between the turns of the loop.
Walking(N, s, k) ==
  /\ s.out \in Seq(N) /\ s.stack \in Seq(N)
  /\ Walk(N, s.out \o s.stack, Len(s.out))
  /\ s.stack = <<>> \/ Len(s.out) = k

LEMMA BeginWalking ==
  ASSUME NEW N, IsTree(N), IsFiniteSet(N)
  PROVE  Walking(N, Begin(N), 0)
<1> DEFINE K == Children(N, HeadId)
<1>1. Lists(K, Bucket(N, HeadId))
  BY ChildrenSorted DEF IsTree
<1>2. Walk(N, K, 0)
  BY <1>1, WalkStart
<1>3. K \in Seq(N) /\ <<>> \in Seq(N) /\ Len(<<>>) = 0
  BY <1>2 DEF Walk
<1> HIDE DEF K
<1>4. <<>> \o K = K
  BY <1>3, ConcatEmptySeq
<1>5. Begin(N).out = <<>> /\ Begin(N).stack = K
  BY DEF Begin, K
<1> QED
  BY <1>2, <1>3, <1>4, <1>5 DEF Walking

\* A turn of traverse() keeps the walk.
LEMMA TurnWalking ==
  ASSUME NEW N, IsTree(N), IsFiniteSet(N), NEW s, NEW k \in Nat, Walking(N, s, k)
  PROVE  Walking(N, Turn(N, s), k + 1)
<1> DEFINE out == s.out
           stack == s.stack
           h == Head(stack)
           K == Children(N, h.id)
           c == out \o stack
           o == Append(out, h)
           r == K \o Tail(stack)
           d == o \o r
<1>0. out \in Seq(N) /\ stack \in Seq(N) /\ Walk(N, c, Len(out)) /\ (stack = <<>> \/ Len(out) = k)
  BY DEF Walking
<1>1. CASE stack = <<>>
  BY <1>0, <1>1 DEF Turn, Walking
<1>2. CASE stack # <<>>
  <2>1. Lists(K, Bucket(N, h.id))
    BY ChildrenSorted DEF IsTree
  <2>2. K \in Seq(N)
    <3>1. K \in Seq(Bucket(N, h.id)) /\ Bucket(N, h.id) \subseteq N
      BY <2>1 DEF Lists, Bucket
    <3>2. Len(K) \in Nat /\ K \in [1 .. Len(K) -> Bucket(N, h.id)]
      BY <3>1, LenProperties
    <3> HIDE DEF K, h
    <3> QED
      BY <3>1, <3>2, IsASeq
  <2> HIDE DEF K, stack, out
  <2>3. /\ d \in Seq(N) /\ Spliced(c, Len(out), K, d) /\ o \in Seq(N) /\ r \in Seq(N)
        /\ c[Len(out) + 1] = h /\ Len(out) < Len(c) /\ Len(o) = Len(out) + 1
    BY <1>0, <1>2, <2>2, SplicedTurn
  <2> HIDE DEF c, d, h, o, r
  <2>4. Walk(N, d, Len(out) + 1)
    BY <1>0, <2>1, <2>3, WalkStep
  <2>5. Turn(N, s).out = o /\ Turn(N, s).stack = r
    BY <1>2 DEF Turn, o, r, h, K, out, stack
  <2>6. Walk(N, o \o r, Len(o)) /\ Len(o) = k + 1
    BY <1>0, <1>2, <2>3, <2>4 DEF d
  <2> QED
    BY <2>3, <2>5, <2>6 DEF Walking
<1> QED
  BY <1>1, <1>2

\* traverse() ends with an empty stack: there are not enough nodes to go on.
LEMMA TraverseWalks ==
  ASSUME NEW N, IsTree(N), IsFiniteSet(N)
  PROVE  Walk(N, Traverse(N), Len(Traverse(N)))
<1> DEFINE L == Cardinality(N)
<1>0. L \in Nat
  BY FS_CardinalityType
<1>1. PICK g : /\ Traverse(N) = g[L].out
               /\ g[0] = Begin(N)
               /\ \A k \in 1 .. L : g[k] = Turn(N, g[k - 1])
  BY <1>0, Loop
<1> DEFINE S == {k \in Nat : k <= L => Walking(N, g[k], k)}
<1>2. 0 \in S
  BY <1>1, BeginWalking
<1>3. ASSUME NEW k \in Nat, k \in S PROVE k + 1 \in S
  <2> SUFFICES ASSUME k + 1 <= L PROVE Walking(N, g[k + 1], k + 1)
    OBVIOUS
  <2>1. k + 1 \in 1 .. L /\ (k + 1) - 1 = k /\ k <= L
    BY <1>0
  <2>2. g[k + 1] = Turn(N, g[k]) /\ Walking(N, g[k], k)
    BY <1>1, <1>3, <2>1
  <2> QED
    BY <2>2, TurnWalking
<1>4. Nat \subseteq S
  <2> HIDE DEF S
  <2> QED
    BY <1>2, <1>3, Inducts
<1>5. Walking(N, g[L], L)
  BY <1>0, <1>4
<1> DEFINE out == g[L].out
           stack == g[L].stack
           c == out \o stack
<1>6. out \in Seq(N) /\ stack \in Seq(N) /\ Walk(N, c, Len(out)) /\ (stack = <<>> \/ Len(out) = L)
  BY <1>5 DEF Walking
<1> HIDE DEF out, stack
<1>7. stack = <<>>
  <2> SUFFICES ASSUME stack # <<>> PROVE FALSE
    OBVIOUS
  <2>1. Len(stack) \in Nat /\ Len(stack) # 0
    BY <1>6, LenProperties, EmptySeq
  <2>2. c \in Seq(N) /\ Len(c) = Len(out) + Len(stack) /\ Len(out) = L
    BY <1>6, ConcatProperties
  <2>3. c \in [1 .. Len(c) -> N] /\ \A i, j \in 1 .. Len(c) : c[i] = c[j] => i = j
    BY <1>6, <2>2, LenProperties DEF Walk, Once
  <2> HIDE DEF c
  <2>4. c \in Injection(1 .. Len(c), N)
    BY <2>3 DEF Injection, IsInjective
  <2>5. Cardinality(1 .. Len(c)) <= L
    BY <2>4, FS_Injection
  <2>6. 1 \in Int /\ Len(c) \in Int /\ Len(c) > L /\ ~(1 > Len(c))
    BY <1>0, <2>1, <2>2
  <2>7. Cardinality(1 .. Len(c)) = (Len(c) - 1) + 1
    BY <2>6, FS_Interval
  <2> QED
    BY <1>0, <2>5, <2>6, <2>7
<1>8. c = out
  BY <1>6, <1>7, ConcatEmptySeq
<1> QED
  BY <1>1, <1>6, <1>8 DEF out

-------------------------------------------------------------------------------
(* toArray() is the walk without its tombstones *)

\* One turn of the loop of toArray().
Show(t, k, s) == IF t[k].tombstoned THEN s ELSE Append(s, t[k].id)

IsShow(g, t, L) == g = [k \in 0 .. L |-> IF k = 0 THEN <<>> ELSE Show(t, k, g[k - 1])]

\* toArray(), as the loop it is.
LEMMA ArrayIs ==
  ASSUME NEW N
  PROVE  ToArray(N) = (CHOOSE g : IsShow(g, Traverse(N), Len(Traverse(N))))[Len(Traverse(N))]
BY DEF ToArray, IsShow, Show

LEMMA ShowExists ==
  ASSUME NEW t, NEW L \in Nat
  PROVE  \E g : IsShow(g, t, L)
<1> DEFINE Is(g, k) == IsShow(g, t, k)
           S == {k \in Nat : \E g : Is(g, k)}
<1>1. 0 \in S
  <2> DEFINE g == [k \in 0 .. 0 |-> <<>>]
  <2>1. \A k \in 0 .. 0 : k = 0
    OBVIOUS
  <2>2. Is(g, 0)
    BY <2>1 DEF IsShow
  <2> HIDE DEF Is
  <2> QED
    BY <2>2
<1>2. ASSUME NEW k \in Nat, k \in S PROVE k + 1 \in S
  <2>1. PICK g : Is(g, k)
    BY <1>2
  <2> DEFINE z == k + 1
             h == [i \in 0 .. z |-> IF i = z THEN Show(t, z, g[k]) ELSE g[i]]
             v(i) == IF i = 0 THEN <<>> ELSE Show(t, i, h[i - 1])
  <2>2. \A i \in 0 .. k : g[i] = IF i = 0 THEN <<>> ELSE Show(t, i, g[i - 1])
    BY <2>1, Zenon DEF IsShow
  <2>3. z \in Nat /\ z # 0 /\ z - 1 = k /\ k \in 0 .. z /\ k # z /\ k \in 0 .. k
    OBVIOUS
  <2>4. ASSUME NEW i \in 0 .. z PROVE h[i] = v(i)
    <3>1. CASE i = z
      <4>1. h[i] = Show(t, z, g[k]) /\ h[k] = g[k]
        BY <2>3, <3>1
      <4> HIDE DEF h, z
      <4> QED
        BY <2>3, <3>1, <4>1
    <3>2. CASE i # z
      <4>1. i \in 0 .. k /\ h[i] = g[i]
        BY <3>2
      <4>2. CASE i = 0
        <5> HIDE DEF h
        <5> QED
          BY <2>2, <4>1, <4>2
      <4>3. CASE i # 0
        <5>1. i - 1 \in 0 .. z /\ i - 1 # z
          BY <4>1, <4>3
        <5>2. h[i - 1] = g[i - 1]
          BY <5>1
        <5> HIDE DEF h
        <5> QED
          BY <2>2, <4>1, <4>3, <5>2
      <4> QED
        BY <4>2, <4>3
    <3> QED
      BY <3>1, <3>2
  <2>5. h = [i \in 0 .. z |-> h[i]]
    OBVIOUS
  <2> HIDE DEF h
  <2>6. h = [i \in 0 .. z |-> v(i)]
    BY <2>4, <2>5
  <2>7. Is(h, z)
    BY <2>6, Zenon DEF IsShow
  <2> HIDE DEF Is
  <2> QED
    BY <2>7
<1> HIDE DEF Is
<1>3. Nat \subseteq S
  <2> HIDE DEF S
  <2> QED
    BY <1>1, <1>2, Inducts
<1>4. \E g : Is(g, L)
  BY <1>3
<1> QED
  BY <1>4 DEF Is

\* The turns of toArray(), one by one.
LEMMA Shows ==
  ASSUME NEW N, Len(Traverse(N)) \in Nat
  PROVE  \E g : /\ ToArray(N) = g[Len(Traverse(N))]
                /\ g[0] = <<>>
                /\ \A k \in 1 .. Len(Traverse(N)) : g[k] = Show(Traverse(N), k, g[k - 1])
<1> DEFINE t == Traverse(N)
           L == Len(t)
           g == CHOOSE f : IsShow(f, t, L)
<1>1. IsShow(g, t, L)
  <2>1. \E f : IsShow(f, t, L)
    BY ShowExists
  <2> QED
    BY <2>1
<1>2. ToArray(N) = g[L]
  BY ArrayIs
<1> HIDE DEF g
<1>3. \A k \in 0 .. L : g[k] = IF k = 0 THEN <<>> ELSE Show(t, k, g[k - 1])
  BY <1>1, Zenon DEF IsShow
<1>4. 0 \in 0 .. L /\ \A k \in 1 .. L : k \in 0 .. L /\ k # 0
  OBVIOUS
<1>5. g[0] = <<>> /\ \A k \in 1 .. L : g[k] = Show(t, k, g[k - 1])
  BY <1>3, <1>4, Zenon
<1> QED
  BY <1>2, <1>5

\* The visible ids among the first k nodes of t, in their order.
Filtered(N, t, k, a) ==
  /\ a \in Seq(Ids(N))
  /\ \A i \in 1 .. Len(a) : \E x \in 1 .. k : ~t[x].tombstoned /\ a[i] = t[x].id
  /\ \A x \in 1 .. k : ~t[x].tombstoned => \E i \in 1 .. Len(a) : a[i] = t[x].id
  /\ \A i, j \in 1 .. Len(a) :
       i < j => \E x, y \in 1 .. k : x < y /\ a[i] = t[x].id /\ a[j] = t[y].id

\* A turn of toArray() keeps the filter.
LEMMA FilteredStep ==
  ASSUME NEW N, NEW t \in Seq(N), NEW k \in Nat, k + 1 \in 1 .. Len(t), NEW a, Filtered(N, t, k, a)
  PROVE  Filtered(N, t, k + 1, Show(t, k + 1, a))
<1> DEFINE z == k + 1
           y == t[z]
           b == Append(a, y.id)
<1>0. /\ a \in Seq(Ids(N)) /\ Len(a) \in Nat /\ Len(t) \in Nat
      /\ \A i \in 1 .. Len(a) : \E x \in 1 .. k : ~t[x].tombstoned /\ a[i] = t[x].id
      /\ \A x \in 1 .. k : ~t[x].tombstoned => \E i \in 1 .. Len(a) : a[i] = t[x].id
      /\ \A i, j \in 1 .. Len(a) :
           i < j => \E x, w \in 1 .. k : x < w /\ a[i] = t[x].id /\ a[j] = t[w].id
  BY LenProperties DEF Filtered
<1>1. /\ \A x \in 1 .. k : x \in 1 .. z /\ x < z
      /\ z \in 1 .. z /\ \A x \in 1 .. z : x = z \/ x \in 1 .. k
  OBVIOUS
<1>2. y \in N /\ y.id \in Ids(N)
  BY ElementOfSeq DEF Ids
<1>3. CASE y.tombstoned
  <2>1. Show(t, z, a) = a
    BY <1>3 DEF Show
  <2>2. \A i \in 1 .. Len(a) : \E x \in 1 .. z : ~t[x].tombstoned /\ a[i] = t[x].id
    BY <1>0, <1>1
  <2>3. \A x \in 1 .. z : ~t[x].tombstoned => \E i \in 1 .. Len(a) : a[i] = t[x].id
    BY <1>0, <1>1, <1>3
  <2>4. \A i, j \in 1 .. Len(a) :
           i < j => \E x, w \in 1 .. z : x < w /\ a[i] = t[x].id /\ a[j] = t[w].id
    BY <1>0, <1>1
  <2> HIDE DEF y, z
  <2>5. Filtered(N, t, z, a)
    BY <1>0, <2>2, <2>3, <2>4 DEF Filtered
  <2> QED
    BY <2>1, <2>5 DEF z
<1>4. CASE ~y.tombstoned
  <2>1. Show(t, z, a) = b
    BY <1>4 DEF Show
  <2> HIDE DEF z
  <2>2. /\ b \in Seq(Ids(N)) /\ Len(b) = Len(a) + 1 /\ b[Len(a) + 1] = y.id
        /\ \A i \in 1 .. Len(a) : b[i] = a[i]
    <3> HIDE DEF y
    <3> QED
      BY <1>0, <1>2, AppendProperties
  <2> HIDE DEF b
  <2>3. /\ \A i \in 1 .. Len(b) : i \in 1 .. Len(a) \/ i = Len(a) + 1
        /\ \A i \in 1 .. Len(a) : i \in 1 .. Len(b)
        /\ Len(a) + 1 \in 1 .. Len(b)
        /\ \A i, j \in 1 .. Len(b) : i < j => i \in 1 .. Len(a)
    BY <1>0, <2>2
  <2>4. ASSUME NEW i \in 1 .. Len(b) PROVE \E x \in 1 .. z : ~t[x].tombstoned /\ b[i] = t[x].id
    <3>1. CASE i = Len(a) + 1
      <4>1. z \in 1 .. z /\ ~t[z].tombstoned /\ b[i] = t[z].id
        BY <1>1, <1>4, <2>2, <3>1
      <4> QED
        BY <4>1
    <3>2. CASE i \in 1 .. Len(a)
      <4>1. PICK x \in 1 .. k : ~t[x].tombstoned /\ a[i] = t[x].id
        BY <1>0, <3>2
      <4>2. x \in 1 .. z /\ b[i] = t[x].id
        BY <1>1, <2>2, <3>2, <4>1
      <4> QED
        BY <4>1, <4>2
    <3> QED
      BY <2>3, <3>1, <3>2
  <2>5. ASSUME NEW x \in 1 .. z, ~t[x].tombstoned PROVE \E i \in 1 .. Len(b) : b[i] = t[x].id
    <3>1. CASE x = z
      BY <2>2, <2>3, <3>1
    <3>2. CASE x \in 1 .. k
      <4>1. PICK i \in 1 .. Len(a) : a[i] = t[x].id
        BY <1>0, <2>5, <3>2
      <4> QED
        BY <2>2, <2>3, <4>1
    <3> QED
      BY <1>1, <3>1, <3>2
  <2>6. ASSUME NEW i \in 1 .. Len(b), NEW j \in 1 .. Len(b), i < j
        PROVE  \E x, w \in 1 .. z : x < w /\ b[i] = t[x].id /\ b[j] = t[w].id
    <3>1. i \in 1 .. Len(a)
      BY <2>3, <2>6
    <3>2. CASE j = Len(a) + 1
      <4>1. PICK x \in 1 .. k : a[i] = t[x].id
        BY <1>0, <3>1
      <4>2. x \in 1 .. z /\ z \in 1 .. z /\ x < z
        BY <1>1
      <4>3. b[i] = t[x].id /\ b[j] = t[z].id
        BY <2>2, <3>1, <3>2, <4>1
      <4> QED
        BY <4>2, <4>3
    <3>3. CASE j \in 1 .. Len(a)
      <4>1. PICK x \in 1 .. k, w \in 1 .. k : x < w /\ a[i] = t[x].id /\ a[j] = t[w].id
        BY <1>0, <2>6, <3>1, <3>3
      <4> QED
        BY <1>1, <2>2, <3>1, <3>3, <4>1
    <3> QED
      BY <2>3, <3>2, <3>3
  <2> HIDE DEF y
  <2>7. Filtered(N, t, z, b)
    BY <2>2, <2>4, <2>5, <2>6 DEF Filtered
  <2> QED
    BY <2>1, <2>7 DEF z
<1> QED
  BY <1>3, <1>4

LEMMA ArrayFilters ==
  ASSUME NEW N, Traverse(N) \in Seq(N)
  PROVE  Filtered(N, Traverse(N), Len(Traverse(N)), ToArray(N))
<1> DEFINE t == Traverse(N)
           L == Len(t)
<1>1. L \in Nat
  BY LenProperties
<1>2. PICK g : /\ ToArray(N) = g[L] /\ g[0] = <<>>
               /\ \A k \in 1 .. L : g[k] = Show(t, k, g[k - 1])
  BY <1>1, Shows
<1> HIDE DEF t, L
<1> DEFINE S == {k \in Nat : k <= L => Filtered(N, t, k, g[k])}
<1>3. 0 \in S
  <2>1. /\ g[0] = <<>> /\ <<>> \in Seq(Ids(N)) /\ Len(<<>>) = 0
    BY <1>2
  <2>2. \A i \in 1 .. 0 : FALSE
    OBVIOUS
  <2>3. Filtered(N, t, 0, g[0])
    BY <2>1, <2>2 DEF Filtered
  <2> QED
    BY <2>3
<1>4. ASSUME NEW k \in Nat, k \in S PROVE k + 1 \in S
  <2>1. SUFFICES ASSUME k + 1 <= L PROVE Filtered(N, t, k + 1, g[k + 1])
    OBVIOUS
  <2>2. k <= L /\ k + 1 \in 1 .. L /\ (k + 1) - 1 = k
    BY <1>1, <2>1
  <2>3. Filtered(N, t, k, g[k])
    BY <1>4, <2>2
  <2>4. g[k + 1] = Show(t, k + 1, g[k])
    BY <1>2, <2>2
  <2>5. t \in Seq(N) /\ k + 1 \in 1 .. Len(t)
    BY <2>2 DEF t, L
  <2> QED
    BY <2>3, <2>4, <2>5, FilteredStep
<1>5. Nat \subseteq S
  <2> HIDE DEF S
  <2> QED
    BY <1>3, <1>4, Inducts
<1>6. Filtered(N, t, L, g[L])
  BY <1>1, <1>5
<1> QED
  BY <1>2, <1>6 DEF t, L

\* What toArray() returns on the nodes of a tree.
LEMMA ArrayOfTree ==
  ASSUME NEW N, IsTree(N), IsFiniteSet(N)
  PROVE  LET a == ToArray(N)
         IN  /\ a \in Seq(Ids(N))
             /\ {a[i] : i \in 1 .. Len(a)} = {n.id : n \in {m \in N : Rooted(N, m.id) /\ ~m.tombstoned}}
             /\ \A i, j \in 1 .. Len(a) : i < j <=> ReferenceBefore(N, a[i], a[j])
<1> DEFINE a == ToArray(N)
           t == Traverse(N)
           L == Len(t)
           shown == {m \in N : Rooted(N, m.id) /\ ~m.tombstoned}
<1>1. Walk(N, t, L)
  BY TraverseWalks
<1>2. t \in Seq(N) /\ L \in Nat /\ InOrder(N, t)
  BY <1>1, LenProperties DEF Walk
<1>3. Filtered(N, t, L, a)
  BY <1>2, ArrayFilters
<1>4. \A n \in N : (\E i \in 1 .. L : t[i] = n) <=> Rooted(N, n.id)
  BY <1>1, WalkEnd
<1> HIDE DEF a, t
<1>5. \A i \in 1 .. L : t[i] \in N
  BY <1>2, ElementOfSeq
<1>6. /\ a \in Seq(Ids(N)) /\ Len(a) \in Nat
      /\ \A i \in 1 .. Len(a) : \E x \in 1 .. L : ~t[x].tombstoned /\ a[i] = t[x].id
      /\ \A x \in 1 .. L : ~t[x].tombstoned => \E i \in 1 .. Len(a) : a[i] = t[x].id
      /\ \A i, j \in 1 .. Len(a) :
           i < j => \E x, y \in 1 .. L : x < y /\ a[i] = t[x].id /\ a[j] = t[y].id
  BY <1>3, LenProperties DEF Filtered
<1>7. ASSUME NEW i \in 1 .. Len(a) PROVE a[i] \in {n.id : n \in shown}
  <2>1. PICK x \in 1 .. L : ~t[x].tombstoned /\ a[i] = t[x].id
    BY <1>6
  <2>2. t[x] \in shown
    BY <1>4, <1>5, <2>1
  <2> QED
    BY <2>1, <2>2
<1>8. ASSUME NEW n \in shown PROVE n.id \in {a[i] : i \in 1 .. Len(a)}
  <2>1. PICK x \in 1 .. L : t[x] = n
    BY <1>4
  <2>2. PICK i \in 1 .. Len(a) : a[i] = n.id
    BY <1>6, <2>1
  <2> QED
    BY <2>2
<1>9. ASSUME NEW i \in 1 .. Len(a), NEW j \in 1 .. Len(a), i < j
      PROVE  ReferenceBefore(N, a[i], a[j])
  <2>1. PICK x \in 1 .. L, y \in 1 .. L : x < y /\ a[i] = t[x].id /\ a[j] = t[y].id
    BY <1>6, <1>9
  <2> QED
    BY <1>2, <2>1 DEF InOrder
<1>10. \A i \in 1 .. Len(a) : a[i] \in Ids(N)
  BY <1>6, ElementOfSeq
<1>11. ASSUME NEW i \in 1 .. Len(a), NEW j \in 1 .. Len(a), ReferenceBefore(N, a[i], a[j])
       PROVE  i < j
  <2>1. a[i] # a[j] /\ ~ReferenceBefore(N, a[j], a[i])
    BY <1>10, <1>11, BeforeStrict
  <2>2. i # j /\ ~(j < i)
    BY <1>9, <2>1
  <2> QED
    BY <1>6, <2>2
<1>12. {a[i] : i \in 1 .. Len(a)} = {n.id : n \in shown}
  BY <1>7, <1>8
<1> QED
  BY <1>6, <1>9, <1>11, <1>12 DEF a

-------------------------------------------------------------------------------
(* The nodes a region holds are part of the messages of the room *)

\* A region's nodes of a room are some of the messages appended to it.
IsNode(n) ==
  /\ n = [id |-> n.id, originLeft |-> n.originLeft, tombstoned |-> n.tombstoned]
  /\ n.tombstoned \in BOOLEAN

HeldIn(N, G) == IsFiniteSet(N) /\ Distinct(N) /\ PartOf(N, G) /\ \A n \in N : IsNode(n)

\* All messages of a room: every origin is the head or another message.
Planted(G) == IsTree(G) /\ \A g \in G : g.originLeft = HeadId \/ g.originLeft \in Ids(G)

LEMMA NewNode ==
  ASSUME NEW id, NEW left, NEW n, n = [id |-> id, originLeft |-> left, tombstoned |-> FALSE]
  PROVE  IsNode(n) /\ n.id = id /\ n.originLeft = left
BY DEF IsNode

\* The part of a tree a region holds is a tree.
LEMMA HeldTree ==
  ASSUME NEW N, NEW G, HeldIn(N, G), Planted(G)
  PROVE  IsTree(N) /\ IsFiniteSet(N) /\ Ids(N) \subseteq Ids(G)
<1>1. IsTree(N)
  BY PartIsTree DEF HeldIn, Planted
<1>2. Ids(N) \subseteq Ids(G)
  BY DEF HeldIn, PartOf, Ids
<1> QED
  BY <1>1, <1>2 DEF HeldIn

LEMMA HeldGrows ==
  ASSUME NEW N, NEW G, NEW H, HeldIn(N, G), G \subseteq H
  PROVE  HeldIn(N, H)
BY DEF HeldIn, PartOf

\* insert() of a message of the room.
LEMMA HeldInsert ==
  ASSUME NEW N, NEW G, HeldIn(N, G), NEW id, NEW left,
         \E g \in G : g.id = id /\ g.originLeft = left
  PROVE  HeldIn(RgaInsert(N, id, left), G)
<1> DEFINE n == [id |-> id, originLeft |-> left, tombstoned |-> FALSE]
<1>1. IsNode(n) /\ n.id = id /\ n.originLeft = left
  BY NewNode
<1>2. CASE \E m \in N : m.id = id
  BY <1>2 DEF RgaInsert
<1>3. CASE ~\E m \in N : m.id = id
  <2>1. RgaInsert(N, id, left) = N \cup {n}
    BY <1>3 DEF RgaInsert
  <2> HIDE DEF n
  <2>2. IsFiniteSet(N \cup {n})
    BY FS_AddElement DEF HeldIn
  <2>3. Distinct(N \cup {n})
    BY <1>1, <1>3 DEF HeldIn, Distinct
  <2>4. PartOf(N \cup {n}, G)
    BY <1>1 DEF HeldIn, PartOf
  <2>5. \A m \in N \cup {n} : IsNode(m)
    BY <1>1 DEF HeldIn
  <2> QED
    BY <2>1, <2>2, <2>3, <2>4, <2>5 DEF HeldIn
<1> QED
  BY <1>2, <1>3

\* What marking a node as a tombstone changes.
LEMMA Marked ==
  ASSUME NEW n, NEW v,
         n = [id |-> n.id, originLeft |-> n.originLeft, tombstoned |-> n.tombstoned]
  PROVE  [n EXCEPT !.tombstoned = v] = [id |-> n.id, originLeft |-> n.originLeft, tombstoned |-> v]
<1>1. DOMAIN n = {"id", "originLeft", "tombstoned"}
  OBVIOUS
<1>2. \A x, w : [x EXCEPT !.tombstoned = w] = [y \in DOMAIN x |-> IF y = "tombstoned" THEN w ELSE x[y]]
  OBVIOUS
<1> QED
  BY <1>1, <1>2

LEMMA Retracted ==
  ASSUME NEW n, IsNode(n)
  PROVE  LET m == [n EXCEPT !.tombstoned = TRUE]
         IN  IsNode(m) /\ m.id = n.id /\ m.originLeft = n.originLeft
<1> DEFINE m == [n EXCEPT !.tombstoned = TRUE]
<1>1. n = [id |-> n.id, originLeft |-> n.originLeft, tombstoned |-> n.tombstoned]
  BY DEF IsNode
<1>2. m = [id |-> n.id, originLeft |-> n.originLeft, tombstoned |-> TRUE]
  BY <1>1, Marked, Zenon
<1> HIDE DEF m
<1> QED
  BY <1>2 DEF IsNode, m

\* remove().
LEMMA HeldRemove ==
  ASSUME NEW N, NEW G, HeldIn(N, G), NEW id
  PROVE  HeldIn(RgaRemove(N, id), G)
<1> DEFINE F(n) == IF n.id = id THEN [n EXCEPT !.tombstoned = TRUE] ELSE n
           M == RgaRemove(N, id)
<1>1. M = {F(n) : n \in N}
  BY DEF RgaRemove
<1>2. ASSUME NEW n \in N PROVE IsNode(F(n)) /\ F(n).id = n.id /\ F(n).originLeft = n.originLeft
  <2>1. IsNode(n)
    BY DEF HeldIn
  <2> DEFINE m == [n EXCEPT !.tombstoned = TRUE]
  <2>2. IsNode(m) /\ m.id = n.id /\ m.originLeft = n.originLeft
    BY <2>1, Retracted
  <2>3. F(n) = IF n.id = id THEN m ELSE n
    OBVIOUS
  <2> HIDE DEF m, F
  <2> QED
    BY <2>1, <2>2, <2>3
<1> HIDE DEF F, M
<1>3. IsFiniteSet(M)
  <2>1. IsFiniteSet(N)
    BY DEF HeldIn
  <2> DEFINE f == [n \in N |-> F(n)]
  <2>2. f \in Surjection(N, M)
    BY <1>1 DEF Surjection
  <2> QED
    BY <2>1, <2>2, FS_Surjection
<1>4. Distinct(M)
  <2> SUFFICES ASSUME NEW x \in M, NEW y \in M, x.id = y.id PROVE x = y
    BY DEF Distinct
  <2>1. PICK m \in N, n \in N : x = F(m) /\ y = F(n)
    BY <1>1
  <2>2. m = n
    BY <1>2, <2>1 DEF HeldIn, Distinct
  <2> QED
    BY <2>1, <2>2
<1>5. PartOf(M, G)
  <2> SUFFICES ASSUME NEW x \in M PROVE \E g \in G : g.id = x.id /\ g.originLeft = x.originLeft
    BY DEF PartOf
  <2>1. PICK n \in N : x = F(n)
    BY <1>1
  <2> QED
    BY <1>2, <2>1 DEF HeldIn, PartOf
<1>6. \A x \in M : IsNode(x)
  BY <1>1, <1>2
<1> QED
  BY <1>3, <1>4, <1>5, <1>6 DEF HeldIn, M

\* merge() of two parts of the same messages.
LEMMA HeldMerge ==
  ASSUME NEW N, NEW M, NEW G, HeldIn(N, G), HeldIn(M, G), Distinct(G)
  PROVE  HeldIn(RgaMerge(N, M), G)
<1> DEFINE U == N \cup M
           W == RgaMerge(N, M)
<1>1. IsFiniteSet(U) /\ PartOf(U, G) /\ \A n \in U : IsNode(n)
  <2>1. IsFiniteSet(U)
    BY FS_Union DEF HeldIn
  <2> QED
    BY <2>1 DEF HeldIn, PartOf
<1>2. W \subseteq U /\ \A n \in W : ~n.tombstoned => ~\E m \in U : m.id = n.id /\ m.tombstoned
  BY DEF RgaMerge
<1> HIDE DEF U, W
<1>3. Distinct(W)
  <2> SUFFICES ASSUME NEW x \in W, NEW y \in W, x.id = y.id PROVE x = y
    BY DEF Distinct
  <2>1. IsNode(x) /\ IsNode(y) /\ x \in U /\ y \in U
    BY <1>1, <1>2
  <2>2. x.tombstoned = y.tombstoned
    BY <1>2, <2>1 DEF IsNode
  <2>3. PICK g \in G : g.id = x.id /\ g.originLeft = x.originLeft
    BY <1>1, <2>1 DEF PartOf
  <2>4. PICK h \in G : h.id = y.id /\ h.originLeft = y.originLeft
    BY <1>1, <2>1 DEF PartOf
  <2>5. g = h
    BY <2>3, <2>4 DEF Distinct
  <2>6. x.originLeft = y.originLeft
    BY <2>3, <2>4, <2>5
  <2> QED
    BY <2>1, <2>2, <2>6 DEF IsNode
<1>4. IsFiniteSet(W) /\ PartOf(W, G) /\ \A n \in W : IsNode(n)
  <2>1. IsFiniteSet(W)
    BY <1>1, <1>2, FS_Subset
  <2> QED
    BY <1>1, <1>2, <2>1 DEF PartOf
<1> QED
  BY <1>3, <1>4 DEF HeldIn, W

\* A new message, after one of the room's or at its head.
LEMMA PlantedAdd ==
  ASSUME NEW G, Planted(G), NEW new, new.id \in MessageIds, new.id \notin Ids(G),
         new.originLeft = HeadId \/ new.originLeft \in Ids(G)
  PROVE  Planted(G \cup {new})
<1> DEFINE H == G \cup {new}
<1>1. new.originLeft # new.id
  BY HeadAssumption
<1>2. \A g \in G : g.originLeft # new.id
  BY HeadAssumption DEF Planted
<1>3. Grounded(H)
  BY <1>1, <1>2, GroundedAdd DEF Planted, IsTree
<1>4. Ids(H) = Ids(G) \cup {new.id}
  BY DEF Ids
<1>5. Distinct(H)
  BY DEF Distinct, Planted, IsTree, Ids
<1> HIDE DEF H
<1>6. IsTree(H)
  BY <1>3, <1>4, <1>5 DEF IsTree, Planted
<1>7. \A g \in H : g.originLeft = HeadId \/ g.originLeft \in Ids(H)
  BY <1>4 DEF Planted, H
<1> QED
  BY <1>6, <1>7 DEF Planted, H

\* New messages leave the order of the old ones alone.
LEMMA BeforeGrows ==
  ASSUME NEW G, NEW H, G \subseteq H, NEW a \in Ids(G), NEW b \in Ids(G), ReferenceBefore(G, a, b)
  PROVE  ReferenceBefore(H, a, b)
<1>1. PartOf(G, H)
  BY DEF PartOf
<1> QED
  BY <1>1, PartBefore

\* The last message of a room, when somebody sees one.
LEMMA LastIs ==
  ASSUME NEW N, IsTree(N), IsFiniteSet(N), NEW i \in 1 .. Len(ToArray(N))
  PROVE  /\ LastVisible(N) \in Ids(N) /\ ToArray(N)[i] \in Ids(N)
         /\ ToArray(N)[i] = LastVisible(N) \/ ReferenceBefore(N, ToArray(N)[i], LastVisible(N))
<1> DEFINE a == ToArray(N)
           L == Len(a)
<1>1. a \in Seq(Ids(N)) /\ \A k, l \in 1 .. Len(a) : k < l <=> ReferenceBefore(N, a[k], a[l])
  BY ArrayOfTree
<1>2. LastVisible(N) = IF a = <<>> THEN HeadId ELSE a[L]
  BY DEF LastVisible
<1>0. i \in 1 .. L
  OBVIOUS
<1> HIDE DEF a
<1>3. L \in Nat /\ L \in 1 .. L /\ (i < L \/ i = L)
  BY <1>0, <1>1, LenProperties
<1>4. a # <<>>
  BY <1>3
<1>5. LastVisible(N) = a[L] /\ a[L] \in Ids(N) /\ a[i] \in Ids(N)
  BY <1>0, <1>1, <1>2, <1>3, <1>4, ElementOfSeq
<1>6. a[i] = a[L] \/ ReferenceBefore(N, a[i], a[L])
  BY <1>0, <1>1, <1>3
<1> QED
  BY <1>5, <1>6 DEF a

\* The origin of a broadcast is the head or a message of the room.
LEMMA LastVisibleIn ==
  ASSUME NEW N, IsTree(N), IsFiniteSet(N)
  PROVE  LastVisible(N) = HeadId \/ LastVisible(N) \in Ids(N)
<1> DEFINE a == ToArray(N)
<1>1. a \in Seq(Ids(N))
  BY ArrayOfTree
<1>2. LastVisible(N) = IF a = <<>> THEN HeadId ELSE a[Len(a)]
  BY DEF LastVisible
<1> HIDE DEF a
<1>3. CASE a # <<>>
  <2>1. Len(a) \in 1 .. Len(a)
    BY <1>1, <1>3, LenProperties, EmptySeq
  <2> QED
    BY <1>1, <1>2, <1>3, <2>1, ElementOfSeq
<1> QED
  BY <1>2, <1>3

\* A message appended after the last one its publisher sees.
LEMMA AppendedLast ==
  ASSUME NEW N, NEW G, HeldIn(N, G), Planted(G), NEW new, new.originLeft = LastVisible(N),
         Planted(G \cup {new}), NEW i \in 1 .. Len(ToArray(N))
  PROVE  ToArray(N)[i] \in Ids(G) /\ ReferenceBefore(G \cup {new}, ToArray(N)[i], new.id)
<1> DEFINE H == G \cup {new}
           x == ToArray(N)[i]
           l == LastVisible(N)
<1>1. IsTree(N) /\ IsFiniteSet(N) /\ Ids(N) \subseteq Ids(G)
  BY HeldTree
<1>2. l \in Ids(N) /\ x \in Ids(N) /\ (x = l \/ ReferenceBefore(N, x, l))
  BY <1>1, LastIs
<1>3. PartOf(N, H) /\ G \subseteq H /\ new \in H /\ IsTree(H)
  BY DEF HeldIn, PartOf, Planted
<1> HIDE DEF H, x, l
<1>4. x = l \/ ReferenceBefore(H, x, l)
  BY <1>2, <1>3, PartBefore
<1>5. l \in Ids(H)
  BY <1>1, <1>2, <1>3 DEF Ids
<1>6. new.originLeft = l
  BY DEF l
<1>7. ReferenceBefore(H, x, new.id)
  BY <1>3, <1>4, <1>5, <1>6, BeforeChild
<1> QED
  BY <1>1, <1>2, <1>7 DEF H, x

-------------------------------------------------------------------------------
(* The order of the messages, in every reachable state *)

\* Every message appended to a room anywhere, as nodes of one sequence.
Links == MessagesFrom(ops)

Trees == \A q \in Rooms : Planted(Links[q])

Held ==
  /\ sequence = [r \in Regions |-> [q \in Rooms |-> sequence[r][q]]]
  /\ \A r \in Regions, q \in Rooms : HeldIn(sequence[r][q], Links[q])
  /\ \A r \in Regions : Pulled(r) => \A q \in Rooms : HeldIn(rounds[r].snap.sequence[q], Links[q])

After(G, o) ==
  \A x \in o.payload.after : x \in Ids(G) /\ ReferenceBefore(G, x, o.payload.message)

AfterKept ==
  \A o \in ops : o.type = "message_append" => After(Links[o.payload.room], o)

OrderInv == Trees /\ Held /\ AfterKept

\* The nodes of a room and the operations that appended them.
LEMMA LinkOf ==
  ASSUME NEW S, NEW q \in Rooms
  PROVE  /\ \A o \in S : o.type = "message_append" /\ o.payload.room = q =>
              \E g \in MessagesFrom(S)[q] :
                g.id = o.payload.message /\ g.originLeft = o.payload.originLeft
         /\ \A id \in Ids(MessagesFrom(S)[q]) :
              \E o \in S : o.type = "message_append" /\ o.payload.room = q /\ o.payload.message = id
<1> DEFINE Node(x) == [id |-> x.payload.message, originLeft |-> x.payload.originLeft,
                       tombstoned |-> FALSE]
           A == {x \in S : x.type = "message_append" /\ x.payload.room = q}
<1>1. MessagesFrom(S)[q] = {Node(x) : x \in A}
  BY DEF MessagesFrom
<1>2. \A x : Node(x).id = x.payload.message /\ Node(x).originLeft = x.payload.originLeft
  OBVIOUS
<1> HIDE DEF Node
<1>3. \A o \in S : o.type = "message_append" /\ o.payload.room = q =>
        \E g \in MessagesFrom(S)[q] :
          g.id = o.payload.message /\ g.originLeft = o.payload.originLeft
  BY <1>1, <1>2
<1>4. \A id \in Ids(MessagesFrom(S)[q]) :
        \E o \in S : o.type = "message_append" /\ o.payload.room = q /\ o.payload.message = id
  BY <1>1, <1>2 DEF Ids
<1> QED
  BY <1>3, <1>4

\* A step that appends no message.
LEMMA OrderKept ==
  ASSUME OrderInv, UNCHANGED deployment,
         ops' = ops \/ \E o : ops' = ops \cup {o} /\ o.type # "message_append",
         sequence' = [r \in Regions |-> [q \in Rooms |-> sequence'[r][q]]],
         \A r \in Regions, q \in Rooms : HeldIn(sequence'[r][q], Links[q]),
         \A r \in Regions : Pulled(r)' => \A q \in Rooms : HeldIn(rounds'[r].snap.sequence[q], Links[q])
  PROVE  OrderInv'
<1>1. Links' = Links
  <2>1. CASE ops' = ops
    BY <2>1 DEF Links
  <2>2. ASSUME NEW o, ops' = ops \cup {o}, o.type # "message_append" PROVE Links' = Links
    <3>1. MessagesFrom(ops \cup {o}) = MessagesFrom(ops)
      BY <2>2, MessagesGrow
    <3> QED
      BY <2>2, <3>1 DEF Links
  <2> QED
    BY <2>1, <2>2
<1>2. \A o \in ops' : o.type = "message_append" => o \in ops
  OBVIOUS
<1>3. Regions' = Regions
  BY DEF Regions
<1>4. Trees'
  BY <1>1 DEF OrderInv, Trees
<1>5. AfterKept'
  BY <1>1, <1>2 DEF OrderInv, AfterKept
<1>6. Held'
  BY <1>1, <1>3 DEF Held
<1> QED
  BY <1>4, <1>5, <1>6 DEF OrderInv

\* broadcast().
LEMMA OrderBroadcast ==
  ASSUME Accounted, OpsNumbered, MessagesNumbered, Shapes, OrderInv, MessagesNumbered',
         NEW r \in Regions, NEW q \in Rooms, NEW left, Broadcast(r, q, left)
  PROVE  OrderInv'
<1>1. PICK payload : /\ IsAppendPayload(r, q, left, payload)
                     /\ IssuesOf(r, "message_append", payload)
  BY IssuingSteps
<1>2. PICK o : IssuesOnly(r, o) /\ o.id = NextId(r) /\ o.type = "message_append" /\ o.payload = payload
  BY <1>1 DEF IssuesOf
<1>3. ops' = ops \cup {o} /\ UNCHANGED <<deployment, rounds>>
  BY <1>2, Issuing DEF IssuesOnly
<1> DEFINE id == MessageId(r)
           N == sequence[r][q]
           G == Links[q]
           new == [id |-> id, originLeft |-> left, tombstoned |-> FALSE]
           H == G \cup {new}
<1>4. sequence' = [sequence EXCEPT ![r][q] = RgaInsert(@, id, left)] /\ left \in Origins(r, q)
  BY DEF Broadcast, MessageId
<1>5. /\ o.payload.room = q /\ o.payload.message = id /\ o.payload.originLeft = left
      /\ o.payload.after = SeenBefore(r, q, left)
  BY <1>1, <1>2 DEF IsAppendPayload
<1>6. o \notin ops
  BY <1>2, FreshId
<1>7. \A x \in ops : x.type = "message_append" => x.payload.message # id
  <2>1. \A x \in ops' : x.type = "message_append" /\ x.payload.message = o.payload.message => x = o
    BY <1>2, <1>3 DEF MessagesNumbered
  <2> QED
    BY <1>3, <1>5, <1>6, <2>1
<1>8. id \in MessageIds
  <2>1. r \in Nat /\ HlcNow(hlc[r], wall[r]) \in Reading
    BY RegionsFinite, HlcTypes DEF Shapes
  <2>2. o.payload.message.localSeq \in Nat
    BY <1>2, <1>3 DEF MessagesNumbered
  <2>3. NextLocalSeq(r) \in Nat
    BY <1>5, <2>2 DEF MessageId
  <2> QED
    BY <2>1, <2>3 DEF MessageId, MessageIds
<1>9. new.id = id /\ new.originLeft = left
  OBVIOUS
<1>10. id \notin Ids(G)
  BY <1>7, LinkOf DEF Links
<1> HIDE DEF id, new
<1>11. /\ Links' = [Links EXCEPT ![q] = RgaInsert(@, id, left)]
  <2>1. \A x \in ops : /\ x.type = "message_append" /\ o.type = "message_append"
                       /\ x.payload.message = o.payload.message
                       => x = o
    BY <1>5, <1>7
  <2>2. MessagesFrom(ops \cup {o}) =
          [MessagesFrom(ops) EXCEPT ![o.payload.room] =
             RgaInsert(@, o.payload.message, o.payload.originLeft)]
    BY <1>2, <1>5, <2>1, MessagesGrow
  <2> QED
    BY <1>3, <1>5, <2>2 DEF Links
<1>12. Links = [x \in Rooms |-> Links[x]]
  BY DEF Links, MessagesFrom
<1>13. RgaInsert(G, id, left) = H
  <2>1. ~\E n \in G : n.id = id
    BY <1>10 DEF Ids
  <2> QED
    BY <2>1 DEF RgaInsert, new
<1>14. /\ Links'[q] = H
       /\ \A x \in Rooms : x # q => Links'[x] = Links[x]
       /\ \A x \in Rooms : Links[x] \subseteq Links'[x]
  BY <1>11, <1>12, <1>13
<1>15. HeldIn(N, G) /\ Planted(G)
  BY DEF OrderInv, Held, Trees
<1>16. IsTree(N) /\ IsFiniteSet(N) /\ Ids(N) \subseteq Ids(G)
  BY <1>15, HeldTree
<1>17. left = HeadId \/ left \in Ids(G)
  <2>1. LastVisible(N) = HeadId \/ LastVisible(N) \in Ids(N)
    BY <1>16, LastVisibleIn
  <2>2. left \in {LastVisible(N), HeadId} \cup Ids(N)
    BY <1>4 DEF Origins, Ids
  <2> QED
    BY <1>16, <2>1, <2>2
<1> HIDE DEF N, G
<1>18. Planted(H)
  BY <1>8, <1>9, <1>10, <1>15, <1>17, PlantedAdd
<1>19. Trees'
  BY <1>14, <1>18 DEF OrderInv, Trees
<1>20. HeldIn(RgaInsert(N, id, left), H)
  <2>1. HeldIn(N, H)
    BY <1>15, HeldGrows
  <2>2. \E g \in H : g.id = id /\ g.originLeft = left
    BY <1>9
  <2> HIDE DEF H
  <2> QED
    BY <2>1, <2>2, HeldInsert
<1>21. Held'
  <2>1. sequence = [x \in Regions |-> [y \in Rooms |-> sequence[x][y]]]
    BY DEF OrderInv, Held
  <2>2. sequence' = [x \in Regions |-> [y \in Rooms |->
                       IF x = r /\ y = q THEN RgaInsert(N, id, left) ELSE sequence[x][y]]]
    BY <1>4, <2>1 DEF N
  <2>3. sequence' = [x \in Regions |-> [y \in Rooms |-> sequence'[x][y]]]
    BY <2>2
  <2>4. ASSUME NEW x \in Regions, NEW y \in Rooms PROVE HeldIn(sequence'[x][y], Links'[y])
    <3>1. HeldIn(sequence[x][y], Links[y])
      BY DEF OrderInv, Held
    <3>2. HeldIn(sequence[x][y], Links'[y])
      BY <1>14, <3>1, HeldGrows
    <3>3. sequence'[x][y] = IF x = r /\ y = q THEN RgaInsert(N, id, left) ELSE sequence[x][y]
      BY <2>2
    <3> QED
      BY <1>14, <1>20, <3>2, <3>3
  <2>5. ASSUME NEW x \in Regions, Pulled(x)', NEW y \in Rooms
        PROVE  HeldIn(rounds'[x].snap.sequence[y], Links'[y])
    <3>1. Pulled(x) /\ rounds' = rounds
      BY <1>3, <2>5 DEF Pulled
    <3>2. HeldIn(rounds[x].snap.sequence[y], Links[y])
      BY <3>1 DEF OrderInv, Held
    <3>3. Links[y] \subseteq Links'[y]
      BY <1>14
    <3>4. HeldIn(rounds[x].snap.sequence[y], Links'[y])
      BY <3>2, <3>3, HeldGrows
    <3> QED
      BY <3>1, <3>4
  <2> QED
    BY <1>3, <2>3, <2>4, <2>5 DEF Held, Regions
<1>22. ASSUME NEW x \in ops, x.type = "message_append" PROVE After(Links'[x.payload.room], x)
  <2> DEFINE y == x.payload.room
  <2>1. y \in Rooms
    BY <1>22 DEF Shapes, WellFormed
  <2>2. After(Links[y], x)
    BY <1>22 DEF OrderInv, AfterKept
  <2>3. x.payload.message \in Ids(Links[y])
    BY <1>22, <2>1, LinkOf DEF Links, Ids
  <2>4. Links[y] \subseteq Links'[y]
    BY <1>14, <2>1
  <2> HIDE DEF y
  <2>5. ASSUME NEW z \in x.payload.after
        PROVE  z \in Ids(Links'[y]) /\ ReferenceBefore(Links'[y], z, x.payload.message)
    <3>1. z \in Ids(Links[y]) /\ ReferenceBefore(Links[y], z, x.payload.message)
      BY <2>2 DEF After
    <3>2. z \in Ids(Links'[y])
      BY <2>4, <3>1 DEF Ids
    <3> QED
      BY <2>3, <2>4, <3>1, <3>2, BeforeGrows
  <2> QED
    BY <2>5 DEF After, y
<1>23. After(H, o)
  <2> DEFINE a == ToArray(N)
  <2>1. SUFFICES ASSUME NEW z \in SeenBefore(r, q, left)
                 PROVE  z \in Ids(H) /\ ReferenceBefore(H, z, id)
    BY <1>5 DEF After
  <2>2. left = LastVisible(N) /\ \E i \in 1 .. Len(a) : z = a[i]
    BY <2>1 DEF SeenBefore, N
  <2>3. PICK i \in 1 .. Len(a) : z = a[i]
    BY <2>2
  <2>4. new.originLeft = LastVisible(N)
    BY <1>9, <2>2
  <2>5. a[i] \in Ids(G) /\ ReferenceBefore(H, a[i], new.id)
    BY <1>15, <1>18, <2>4, AppendedLast
  <2> QED
    BY <1>9, <2>3, <2>5 DEF Ids
<1>24. AfterKept'
  <2>1. SUFFICES ASSUME NEW x \in ops', x.type = "message_append"
                 PROVE  After(Links'[x.payload.room], x)
    BY DEF AfterKept
  <2>2. CASE x \in ops
    BY <1>22, <2>1, <2>2
  <2>3. CASE x = o
    BY <1>5, <1>14, <1>23, <2>3
  <2> QED
    BY <1>3, <2>2, <2>3
<1> QED
  BY <1>19, <1>21, <1>24 DEF OrderInv

\* Before any message.
LEMMA OrderInvInit == Init => OrderInv
<1> SUFFICES ASSUME Init PROVE OrderInv
  OBVIOUS
<1>1. ops = {} /\ \A r \in Regions : rounds[r] = Nobody
  BY DEF Init
<1>2. Links = [q \in Rooms |-> {}]
  BY <1>1 DEF Links, MessagesFrom
<1>3. Planted({})
  BY DEF Planted, IsTree, Distinct, Grounded, Ids
<1>4. HeldIn({}, {})
  BY FS_EmptySet DEF HeldIn, Distinct, PartOf
<1>5. sequence = [r \in Regions |-> [q \in Rooms |-> {}]]
  BY DEF Init
<1>6. Held
  <2>1. \A r \in Regions, q \in Rooms : HeldIn(sequence[r][q], Links[q])
    BY <1>2, <1>4, <1>5
  <2>2. sequence = [r \in Regions |-> [q \in Rooms |-> sequence[r][q]]]
    BY <1>5
  <2> QED
    BY <1>1, <2>1, <2>2 DEF Held, Pulled
<1> QED
  BY <1>1, <1>2, <1>3, <1>6 DEF OrderInv, Trees, AfterKept

\* Every step keeps the trees, the parts and the messages seen before.
LEMMA OrderNext ==
  ASSUME Accounted, OpsNumbered, MessagesNumbered, Shapes, OrderInv, [Next]_vars,
         MessagesNumbered'
  PROVE  OrderInv'
<1>0. /\ sequence = [r \in Regions |-> [q \in Rooms |-> sequence[r][q]]]
      /\ \A r \in Regions, q \in Rooms : HeldIn(sequence[r][q], Links[q])
      /\ \A r \in Regions : Pulled(r) =>
           \A q \in Rooms : HeldIn(rounds[r].snap.sequence[q], Links[q])
      /\ \A q \in Rooms : Planted(Links[q])
  BY DEF OrderInv, Held, Trees
<1>a. ASSUME UNCHANGED <<deployment, sequence, ops>>,
             \A r \in Regions : Pulled(r)' => Pulled(r) /\ rounds'[r] = rounds[r]
      PROVE  OrderInv'
  <2>1. \A r \in Regions : Pulled(r)' =>
          \A q \in Rooms : HeldIn(rounds'[r].snap.sequence[q], Links[q])
    BY <1>0, <1>a
  <2> QED
    BY <1>0, <1>a, <2>1, OrderKept
<1>b. ASSUME NEW r \in Regions, NEW type, NEW payload, IssuesOf(r, type, payload),
             type # "message_append", sequence' = sequence
      PROVE  OrderInv'
  <2>1. PICK o : IssuesOnly(r, o) /\ o.type = type
    BY <1>b DEF IssuesOf
  <2>2. ops' = ops \cup {o} /\ UNCHANGED <<deployment, rounds>>
    BY <2>1, Issuing DEF IssuesOnly
  <2>3. \A x \in Regions : Pulled(x)' =>
          \A q \in Rooms : HeldIn(rounds'[x].snap.sequence[q], Links[q])
    BY <1>0, <2>2 DEF Pulled
  <2> QED
    BY <1>0, <1>b, <2>1, <2>2, <2>3, OrderKept
<1>d. ASSUME NEW p \in Regions, NEW q \in Rooms, NEW M, HeldIn(M, Links[q]),
             sequence' = [sequence EXCEPT ![p][q] = M],
             ops' = ops \/ \E o : ops' = ops \cup {o} /\ o.type # "message_append",
             UNCHANGED <<deployment, rounds>>
      PROVE  OrderInv'
  <2>1. sequence' = [x \in Regions |-> [y \in Rooms |->
                       IF x = p /\ y = q THEN M ELSE sequence[x][y]]]
    BY <1>0, <1>d
  <2>2. sequence' = [x \in Regions |-> [y \in Rooms |-> sequence'[x][y]]]
    BY <2>1
  <2>3. \A x \in Regions, y \in Rooms : HeldIn(sequence'[x][y], Links[y])
    BY <1>0, <1>d, <2>1
  <2>4. \A x \in Regions : Pulled(x)' =>
          \A y \in Rooms : HeldIn(rounds'[x].snap.sequence[y], Links[y])
    BY <1>0, <1>d DEF Pulled
  <2> QED
    BY <1>d, <2>2, <2>3, <2>4, OrderKept
<1>1. ASSUME NEW r \in Regions, NEW c, NEW q, JoinRoom(r, c, q) \/ LeaveRoom(r, c, q)
      PROVE  OrderInv'
  <2>1. \E type, payload : type # "message_append" /\ IssuesOf(r, type, payload)
    <3>1. IssuesOf(r, "membership_add", JoinPayload(r, c, q))
            \/ IssuesOf(r, "membership_remove", LeavePayload(r, c, q))
      BY <1>1, IssuingSteps
    <3> QED
      BY <3>1
  <2>2. sequence' = sequence
    BY <1>1 DEF JoinRoom, LeaveRoom
  <2> QED
    BY <2>1, <2>2, <1>b
<1>2. ASSUME NEW r \in Regions, NEW q \in Rooms, NEW left, Broadcast(r, q, left)
      PROVE  OrderInv'
  BY <1>2, OrderBroadcast
<1>3. ASSUME NEW r \in Regions, NEW q \in Rooms, NEW id, Retract(r, q, id) PROVE OrderInv'
  <2>0. IssuesOf(r, "message_remove", [room |-> q, message |-> id])
    BY <1>3, IssuingSteps
  <2>1. PICK o : IssuesOnly(r, o) /\ o.type = "message_remove"
    BY <2>0 DEF IssuesOf
  <2>2. ops' = ops \cup {o} /\ UNCHANGED <<deployment, rounds>> /\ o.type # "message_append"
    BY <2>1, Issuing DEF IssuesOnly
  <2>3. sequence' = [sequence EXCEPT ![r][q] = RgaRemove(sequence[r][q], id)]
    BY <1>3 DEF Retract
  <2>4. HeldIn(RgaRemove(sequence[r][q], id), Links[q])
    BY <1>0, HeldRemove
  <2> QED
    BY <1>d, <2>2, <2>3, <2>4
<1>4. ASSUME NEW r \in Regions, NEW k, SaveSession(r, k) \/ SetGlobalConfig(r, k)
      PROVE  OrderInv'
  <2>1. \E type : type # "message_append" /\ IssuesOf(r, type, [key |-> k])
    BY <1>4, IssuingSteps
  <2>2. sequence' = sequence
    BY <1>4 DEF SaveSession, SetGlobalConfig
  <2> QED
    BY <2>1, <2>2, <1>b
<1>5. ASSUME NEW r \in Regions, NEW f, NEW type \in {"geofence_upsert", "geofence_remove"},
             EditGeofence(r, f, type)
      PROVE  OrderInv'
  <2>1. IssuesOf(r, type, EditPayload(r, f))
    BY <1>5, IssuingSteps
  <2>2. sequence' = sequence
    BY <1>5 DEF EditGeofence
  <2> QED
    BY <2>1, <2>2, <1>b
<1>6. ASSUME NEW p \in Regions, NEW o \in ops, HandlePeerOperation(p, o) PROVE OrderInv'
  <2>1. sequence' = AppliedSequence(p, o) /\ UNCHANGED <<deployment, rounds, ops>>
    BY <1>6 DEF HandlePeerOperation
  <2>2. WellFormed(o)
    BY DEF Shapes
  <2> DEFINE q == o.payload.room
  <2>3. CASE o.type = "message_append"
    <3> DEFINE M == RgaInsert(sequence[p][q], o.payload.message, o.payload.originLeft)
    <3>1. q \in Rooms
      BY <2>2, <2>3 DEF WellFormed
    <3>2. \E g \in Links[q] : g.id = o.payload.message /\ g.originLeft = o.payload.originLeft
      BY <2>3, <3>1, LinkOf DEF Links
    <3>3. sequence' = [sequence EXCEPT ![p][q] = M]
      BY <2>1, <2>3 DEF AppliedSequence
    <3> HIDE DEF q
    <3>4. HeldIn(M, Links[q])
      BY <1>0, <3>1, <3>2, HeldInsert
    <3> HIDE DEF M
    <3> QED
      BY <1>d, <2>1, <3>1, <3>3, <3>4
  <2>4. CASE o.type = "message_remove"
    <3> DEFINE M == RgaRemove(sequence[p][q], o.payload.message)
    <3>1. q \in Rooms
      BY <2>2, <2>4 DEF WellFormed
    <3>3. sequence' = [sequence EXCEPT ![p][q] = M]
      BY <2>1, <2>4 DEF AppliedSequence
    <3> HIDE DEF q
    <3>4. HeldIn(M, Links[q])
      BY <1>0, <3>1, HeldRemove
    <3> HIDE DEF M
    <3> QED
      BY <1>d, <2>1, <3>1, <3>3, <3>4
  <2>5. CASE o.type \notin {"message_append", "message_remove"}
    <3>1. sequence' = sequence
      BY <2>1, <2>5 DEF AppliedSequence
    <3> QED
      BY <1>a, <2>1, <3>1 DEF Pulled
  <2> QED
    BY <2>3, <2>4, <2>5
<1>7. ASSUME NEW r \in Regions, MergeRemoteState(r) PROVE OrderInv'
  <2> DEFINE snap == rounds[r].snap
  <2>1. /\ Pulled(r)
        /\ sequence' = [sequence EXCEPT ![r] =
             [q \in Rooms |-> RgaMerge(sequence[r][q], snap.sequence[q])]]
        /\ rounds' = [rounds EXCEPT ![r] = Nobody]
        /\ UNCHANGED <<deployment, ops>>
    BY <1>7 DEF MergeRemoteState, Pulled
  <2>2. \A q \in Rooms : HeldIn(snap.sequence[q], Links[q])
    BY <1>0, <2>1
  <2> HIDE DEF snap
  <2>3. ASSUME NEW q \in Rooms PROVE HeldIn(RgaMerge(sequence[r][q], snap.sequence[q]), Links[q])
    <3>1. Distinct(Links[q])
      BY <1>0 DEF Planted, IsTree
    <3>2. HeldIn(sequence[r][q], Links[q]) /\ HeldIn(snap.sequence[q], Links[q])
      BY <1>0, <2>2
    <3> QED
      BY <3>1, <3>2, HeldMerge
  <2>4. sequence' = [x \in Regions |-> [y \in Rooms |->
                       IF x = r THEN RgaMerge(sequence[r][y], snap.sequence[y]) ELSE sequence[x][y]]]
    BY <1>0, <2>1
  <2>5. sequence' = [x \in Regions |-> [y \in Rooms |-> sequence'[x][y]]]
    BY <2>4
  <2>6. \A x \in Regions, y \in Rooms : HeldIn(sequence'[x][y], Links[y])
    BY <1>0, <2>3, <2>4
  <2>7. \A x \in Regions : Pulled(x)' => Pulled(x) /\ rounds'[x] = rounds[x]
    BY <2>1 DEF Accounted, Pulled
  <2>8. \A x \in Regions : Pulled(x)' =>
          \A y \in Rooms : HeldIn(rounds'[x].snap.sequence[y], Links[y])
    BY <1>0, <2>7
  <2> QED
    BY <2>1, <2>5, <2>6, <2>8, OrderKept
<1>8. ASSUME NEW r \in Regions, NEW p \in Regions, Probe(r, p) PROVE OrderInv'
  <2>1. /\ UNCHANGED <<deployment, sequence, ops>>
        /\ rounds' = [rounds EXCEPT ![r] = [peer |-> p, snap |-> NoSnapshot]]
    BY <1>8 DEF Probe, data
  <2>2. \A x \in Regions : Pulled(x)' => Pulled(x) /\ rounds'[x] = rounds[x]
    BY <2>1 DEF Accounted, Pulled
  <2> QED
    BY <2>1, <2>2, <1>a
<1>9. ASSUME NEW r \in Regions, FetchState(r) PROVE OrderInv'
  <2>1. UNCHANGED <<deployment, sequence, ops>>
    BY <1>9 DEF FetchState, data
  <2>2. /\ rounds[r].peer \in Regions
        /\ rounds'[r].snap = Snapshot(rounds[r].peer)
        /\ \A x \in Regions : x # r => rounds'[x] = rounds[x]
    BY <1>9, FetchedSnapshot
  <2>3. rounds'[r].snap.sequence = sequence[rounds[r].peer]
    BY <2>2 DEF Snapshot
  <2>4. ASSUME NEW x \in Regions, Pulled(x)', NEW q \in Rooms
        PROVE  HeldIn(rounds'[x].snap.sequence[q], Links[q])
    <3>1. CASE x = r
      BY <1>0, <2>2, <2>3, <3>1
    <3>2. CASE x # r
      <4>1. Pulled(x) /\ rounds'[x] = rounds[x]
        BY <2>2, <2>4, <3>2 DEF Pulled
      <4> QED
        BY <1>0, <4>1
    <3> QED
      BY <3>1, <3>2
  <2> QED
    BY <1>0, <2>1, <2>4, OrderKept
<1>10. ASSUME NEW r \in Regions, FetchFails(r) PROVE OrderInv'
  <2>1. UNCHANGED <<deployment, sequence, ops>> /\ rounds' = [rounds EXCEPT ![r] = Nobody]
    BY <1>10 DEF FetchFails, data
  <2>2. \A x \in Regions : Pulled(x)' => Pulled(x) /\ rounds'[x] = rounds[x]
    BY <2>1 DEF Accounted, Pulled
  <2> QED
    BY <2>1, <2>2, <1>a
<1>e. ASSUME UNCHANGED <<deployment, sequence, ops, rounds>> PROVE OrderInv'
  BY <1>a, <1>e DEF Pulled
<1>11. ASSUME NEW r, NEW p,
              \/ ProbeFails(r, p) \/ MarkRegionFailed(r, p) \/ MarkRegionHealthy(r, p) \/ Tick(r)
       PROVE  OrderInv'
  BY <1>11, <1>e DEF ProbeFails, MarkRegionFailed, MarkRegionHealthy, Tick, data
<1>12. ASSUME NEW w, NEW p, NEW ack, Settle(w, p, ack) \/ Decide(w) PROVE OrderInv'
  BY <1>12, <1>e DEF Settle, Decide, data
<1>13. CASE UNCHANGED vars
  BY <1>13, <1>e DEF vars, data
<1> QED
  BY <1>1, <1>2, <1>3, <1>4, <1>5, <1>6, <1>7, <1>8, <1>9, <1>10, <1>11, <1>12, <1>13
     DEF Next, SyncGeofence, RemoveGeofence

MessageOrderInv == Accounted /\ OpsNumbered /\ MessagesNumbered /\ Shapes /\ OrderInv

LEMMA MessageOrderInvInit == Init => MessageOrderInv
BY ConvergenceInvInit, OrderInvInit DEF ConvergenceInv, MembershipInv, MessageOrderInv

LEMMA MessageOrderInvNext == MessageOrderInv /\ [Next]_vars => MessageOrderInv'
<1> SUFFICES ASSUME MessageOrderInv, [Next]_vars PROVE MessageOrderInv'
  OBVIOUS
<1>1. Accounted' /\ OpsNumbered' /\ Shapes'
  BY AccountedNext, OpsNumberedNext, ShapesNext DEF MessageOrderInv
<1>2. MessagesNumbered'
  BY MessagesNumberedNext DEF MessageOrderInv
<1>3. OrderInv'
  BY <1>2, OrderNext DEF MessageOrderInv
<1> QED
  BY <1>1, <1>2, <1>3 DEF MessageOrderInv

\* What a region shows, against all messages of the room.
LEMMA ShownInLinks ==
  ASSUME MessageOrderInv, NEW r \in Regions, NEW q \in Rooms
  PROVE  LET a == ToArray(sequence[r][q])
         IN  \A i, j \in 1 .. Len(a) :
               /\ a[i] \in Ids(Links[q])
               /\ i < j => ReferenceBefore(Links[q], a[i], a[j])
<1> DEFINE N == sequence[r][q]
           G == Links[q]
           a == ToArray(N)
<1>1. HeldIn(N, G) /\ Planted(G)
  BY DEF MessageOrderInv, OrderInv, Held, Trees
<1> HIDE DEF N, G
<1>2. IsTree(N) /\ IsFiniteSet(N) /\ Ids(N) \subseteq Ids(G) /\ PartOf(N, G)
  BY <1>1, HeldTree DEF HeldIn
<1>3. a \in Seq(Ids(N)) /\ \A i, j \in 1 .. Len(a) : i < j <=> ReferenceBefore(N, a[i], a[j])
  BY <1>2, ArrayOfTree
<1> HIDE DEF a
<1>4. \A i \in 1 .. Len(a) : a[i] \in Ids(N)
  BY <1>3, ElementOfSeq
<1>5. ASSUME NEW i \in 1 .. Len(a), NEW j \in 1 .. Len(a)
      PROVE  a[i] \in Ids(G) /\ (i < j => ReferenceBefore(G, a[i], a[j]))
  BY <1>2, <1>3, <1>4, PartBefore
<1> QED
  BY <1>5 DEF N, G, a

LEMMA TraversalHolds == MessageOrderInv => TraversalMatchesReference
<1> SUFFICES ASSUME MessageOrderInv, NEW r \in Regions, NEW q \in Rooms
             PROVE  LET nodes == sequence[r][q]
                        shown == ToArray(nodes)
                    IN  /\ {shown[i] : i \in 1 .. Len(shown)} =
                             {n.id : n \in {m \in nodes : Rooted(nodes, m.id) /\ ~m.tombstoned}}
                        /\ \A i, j \in 1 .. Len(shown) :
                             i < j <=> ReferenceBefore(nodes, shown[i], shown[j])
  BY DEF TraversalMatchesReference
<1> DEFINE N == sequence[r][q]
<1>1. HeldIn(N, Links[q]) /\ Planted(Links[q])
  BY DEF MessageOrderInv, OrderInv, Held, Trees
<1>2. IsTree(N) /\ IsFiniteSet(N)
  BY <1>1, HeldTree
<1> HIDE DEF N
<1>3. /\ {ToArray(N)[i] : i \in 1 .. Len(ToArray(N))} =
           {n.id : n \in {m \in N : Rooted(N, m.id) /\ ~m.tombstoned}}
      /\ \A i, j \in 1 .. Len(ToArray(N)) :
           i < j <=> ReferenceBefore(N, ToArray(N)[i], ToArray(N)[j])
  BY <1>2, ArrayOfTree
<1> QED
  BY <1>3 DEF N

\* Two regions order their messages as the whole room does.
LEMMA OrdersHold == MessageOrderInv => OrdersAgree
<1> SUFFICES ASSUME MessageOrderInv, NEW r \in Regions, NEW p \in Regions, NEW q \in Rooms,
                    NEW i \in 1 .. Len(ToArray(sequence[r][q])),
                    NEW j \in 1 .. Len(ToArray(sequence[r][q])),
                    NEW k \in 1 .. Len(ToArray(sequence[p][q])),
                    NEW l \in 1 .. Len(ToArray(sequence[p][q])),
                    i < j, k < l,
                    ToArray(sequence[r][q])[i] = ToArray(sequence[p][q])[l],
                    ToArray(sequence[r][q])[j] = ToArray(sequence[p][q])[k]
             PROVE  FALSE
  BY DEF OrdersAgree
<1> DEFINE a == ToArray(sequence[r][q])
           b == ToArray(sequence[p][q])
           G == Links[q]
<1>1. a[i] \in Ids(G) /\ a[j] \in Ids(G) /\ ReferenceBefore(G, a[i], a[j])
  BY ShownInLinks
<1>2. ReferenceBefore(G, b[k], b[l])
  BY ShownInLinks
<1>3. IsTree(G)
  BY DEF MessageOrderInv, OrderInv, Trees, Planted
<1>4. a[i] = b[l] /\ a[j] = b[k]
  OBVIOUS
<1> HIDE DEF a, b, G
<1>5. ~ReferenceBefore(G, a[j], a[i])
  BY <1>1, <1>3, BeforeStrict
<1> QED
  BY <1>2, <1>4, <1>5

\* The whole room has a message after what its publisher saw.
LEMMA AppendedHolds == MessageOrderInv => AppendedAfterSeen
<1> SUFFICES ASSUME MessageOrderInv, NEW r \in Regions, NEW q \in Rooms,
                    NEW o \in ops, o.type = "message_append",
                    NEW i \in 1 .. Len(ToArray(sequence[r][q])),
                    NEW j \in 1 .. Len(ToArray(sequence[r][q])),
                    ToArray(sequence[r][q])[i] = o.payload.message,
                    ToArray(sequence[r][q])[j] \in o.payload.after
             PROVE  j < i
  BY DEF AppendedAfterSeen
<1> DEFINE a == ToArray(sequence[r][q])
           G == Links[q]
<1>1. a[i] \in Ids(G) /\ a[j] \in Ids(G) /\ (i < j => ReferenceBefore(G, a[i], a[j]))
  BY ShownInLinks
<1>2. IsTree(G)
  BY DEF MessageOrderInv, OrderInv, Trees, Planted
<1>3. o.payload.room = q
  <2>0. \A id \in Ids(Links[q]) :
          \E x \in ops : x.type = "message_append" /\ x.payload.room = q /\ x.payload.message = id
    BY LinkOf DEF Links
  <2>1. PICK x \in ops : /\ x.type = "message_append" /\ x.payload.room = q
                         /\ x.payload.message = a[i]
    BY <1>1, <2>0
  <2>2. x.payload.message = o.payload.message
    BY <2>1
  <2>3. x = o
    BY <2>1, <2>2 DEF MessageOrderInv, MessagesNumbered
  <2> QED
    BY <2>1, <2>3
<1>4. After(G, o)
  BY <1>3 DEF MessageOrderInv, OrderInv, AfterKept
<1>5. ReferenceBefore(G, a[j], a[i])
  BY <1>4 DEF After
<1>6. i \in Int /\ j \in Int
  OBVIOUS
<1> HIDE DEF a, G
<1>7. a[j] # a[i] /\ ~ReferenceBefore(G, a[i], a[j])
  BY <1>1, <1>2, <1>5, BeforeStrict
<1>8. i # j /\ ~(i < j)
  BY <1>1, <1>7
<1> QED
  BY <1>6, <1>8

\* What a region shows is what the tree of origins defines, for any regions,
\* rooms and messages: every message whose origins have all arrived and that is
\* not retracted, and no other, each exactly at its place in depth-first order
\* with siblings by ascending id.  So the loop of traverse() with its explicit
\* stack, and the filter of toArray(), lose, repeat and misplace nothing.
THEOREM MessagesInTreeOrder == Spec => []TraversalMatchesReference
<1>1. MessageOrderInv => TraversalMatchesReference
  BY TraversalHolds
<1> QED
  BY <1>1, MessageOrderInvInit, MessageOrderInvNext, PTL DEF Spec

\* No two regions ever show two messages in opposite orders, whichever messages,
\* retractions and snapshots have reached them: each holds a part of one tree,
\* and what is missing never changes the order of what is there.
THEOREM OrdersNeverDisagree == Spec => []OrdersAgree
BY OrdersHold, MessageOrderInvInit, MessageOrderInvNext, PTL DEF Spec

\* A message appended at the end stands after everything its publisher saw, in
\* every region that shows both, although the ids alone, stamped by clocks that
\* drift, would order them otherwise.
THEOREM RepliesFollow == Spec => []AppendedAfterSeen
BY AppendedHolds, MessageOrderInvInit, MessageOrderInvNext, PTL DEF Spec
===============================================================================

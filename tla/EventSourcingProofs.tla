------------------------- MODULE EventSourcingProofs -------------------------
(***************************************************************************)
(* Proofs about EventSourcing, for any clients, rooms, fences, workloads   *)
(* and sizes: the optimistic check keeps the sequence numbers of every     *)
(* aggregate dense, the events of the log reach the subscribers, snapshots *)
(* and loaded aggregates are what replaying the log gives, and entries and *)
(* exits of a fence alternate.                                             *)
(***************************************************************************)
EXTENDS EventSourcing, FiniteSetTheorems, SequenceTheorems, WellFoundedInduction, TLAPS

EventTypes == {"location_update", "room_joined", "room_left", "geofence_updated", "geofence_entered",
               "geofence_exited", "session_resumed", "message_ack", "message_nack"}

Recorded == [aggregate : Aggregates, type : EventTypes, cause : {cmd.id : cmd \in Commands},
             client : Clients, room : Rooms, seq : Nat, fences : SUBSET Fences, sequence : Nat]

\* The vehicle events of joins and leaves, which a conflict on the room may leave behind.
Membership == {"room_joined", "room_left"}
Loose == {e \in Recorded : e.aggregate = e.client /\ e.type \in Membership}
LooseOf(cmd) == {e \in Loose : e.cause = cmd.id}

\* The event is one that the command records on the aggregate.
OfCommand(e, a, cmd) == e.aggregate = a /\ e.cause = cmd.id /\ e.client = cmd.client

Loaded == {"events", "append", "insert"}
Staged == {"append", "insert"}

\* The aggregate that a handler works on.
OfKind(it) ==
    \/ it.kind = "vehicle" /\ it.aggregate = it.cmd.client
    \/ it.kind = "room" /\ it.aggregate = it.cmd.room /\ TouchesRoom(it.cmd)

\* What a handler knows at each of its awaits.
WellFormed(it) ==
    /\ it.pc \in {"idle", "settled", "snapshot"} \cup Loaded
    /\ it.pc # "idle" => it.cmd \in Commands
    /\ it.pc \in {"snapshot"} \cup Loaded => OfKind(it)
    /\ it.pc \in {"snapshot", "events"} => it.events \subseteq LooseOf(it.cmd)
    /\ it.pc \in Loaded => /\ DOMAIN it = {"pc", "cmd", "kind", "aggregate", "events", "sequence", "state"}
                           /\ it.sequence \in Nat
    /\ it.pc \in Staged =>
          /\ it.events.earlier \subseteq LooseOf(it.cmd)
          /\ it.events.staged \in Seq(Recorded)
          /\ \A n \in 1 .. Len(it.events.staged) :
                /\ OfCommand(it.events.staged[n], it.aggregate, it.cmd)
                /\ it.kind = "vehicle" /\ TouchesRoom(it.cmd) =>
                      it.events.staged[n].type \in Membership
    /\ it.pc = "insert" => Transactional

Types ==
    /\ workload \in Workloads
    /\ log \in [Aggregates -> Seq(Recorded)]
    /\ DOMAIN snapshots = Aggregates /\ \A a \in Aggregates : snapshots[a].sequence \in Nat
    /\ DOMAIN writing = Aggregates
    /\ \A a \in Aggregates : \A snap \in writing[a] : snap.sequence \in Nat
    /\ DOMAIN dispatches = Dispatches /\ \A d \in Dispatches : WellFormed(dispatches[d])

\* The events that a handler will hand to the dispatcher.
Carried(it) ==
    IF it.pc \in {"snapshot", "events", "settled"} THEN it.events
    ELSE IF it.pc \in Staged THEN it.events.earlier ELSE {}

Known(e) == e \in published \/ \E d \in Dispatches : e \in Carried(dispatches[d])

\* Every event of the log is published, carried by a handler, or one that a rejected
\* command left behind, in memory the vehicle event of a join or a leave.
LeftBy(e, ids) == e.cause \in ids /\ (~Transactional => e \in Loose)
Accounted == \A a \in Aggregates : \A n \in 1 .. Len(log[a]) :
    Known(log[a][n]) \/ LeftBy(log[a][n], rejected)

\* A handler that runs alone appends to the log that it has read, and in memory no event
\* stays behind.
StoreCurrent == \A a \in Aggregates :
    /\ Len(log[a]) <= MaxEvents
    /\ snapshots[a].sequence <= Len(log[a])
    /\ \A snap \in writing[a] : snap.sequence <= Len(log[a])
HandlersCurrent == \A d \in Dispatches :
    /\ dispatches[d].pc = "events" => dispatches[d].sequence <= Len(log[dispatches[d].aggregate])
    /\ dispatches[d].pc \in Staged => dispatches[d].sequence = Len(log[dispatches[d].aggregate])
AllKnown == \A a \in Aggregates : \A n \in 1 .. Len(log[a]) : Known(log[a][n])

Alone == Cardinality(Dispatches) = 1 =>
    StoreCurrent /\ HandlersCurrent /\ (~Transactional => AllKnown)

-----------------------------------------------------------------------------
(* Sequences of events. *)

LEMMA CommandTyped ==
  ASSUME workload \in Workloads, NEW cmd \in Commands
  PROVE  /\ cmd.type \in CommandTypes /\ cmd.client \in Clients /\ cmd.room \in Rooms
         /\ cmd.seq \in Nat /\ cmd.within \subseteq Fences
         /\ cmd.client \in Aggregates /\ cmd.room \in Aggregates
BY WorkloadAssumption DEF Commands, Aggregates

LEMMA EventTyped ==
  ASSUME workload \in Workloads, NEW cmd \in Commands, NEW a \in Aggregates,
         NEW type \in EventTypes, NEW fences \in SUBSET Fences
  PROVE  /\ Event(a, cmd, type, fences) \in Recorded
         /\ OfCommand(Event(a, cmd, type, fences), a, cmd) /\ Event(a, cmd, type, fences).type = type
<1>1. cmd.client \in Clients /\ cmd.room \in Rooms /\ cmd.seq \in Nat
  BY CommandTyped
<1>2. cmd.id \in {c.id : c \in Commands}
  OBVIOUS
<1>3. 0 \in Nat
  OBVIOUS
<1> QED BY <1>1, <1>2, <1>3 DEF Event, Recorded, OfCommand

\* SetToSeq of a finite set is a sequence.
LEMMA OrderedSet ==
  ASSUME NEW S, IsFiniteSet(S)
  PROVE  /\ SetToSeq(S) \in [1 .. Cardinality(S) -> S] /\ Cardinality(S) \in Nat
         /\ Len(SetToSeq(S)) = Cardinality(S)
<1>1. Cardinality(S) \in Nat /\ ExistsBijection(1 .. Cardinality(S), S)
  BY FS_CardinalityType
<1>2. PICK f \in Bijection(1 .. Cardinality(S), S) : TRUE
  BY <1>1 DEF ExistsBijection
<1>3. f \in [1 .. Cardinality(S) -> S] /\ IsInjective(f)
  BY <1>2 DEF Bijection, Injection, IsInjective
<1>4. SetToSeq(S) \in [1 .. Cardinality(S) -> S]
  BY <1>3 DEF SetToSeq
<1>5. SetToSeq(S) \in Seq(S)
  BY <1>1, <1>4, SeqDef
<1> QED BY <1>1, <1>4, <1>5, LenProperties

\* One event for each fence of a set.
LEMMA PerFence ==
  ASSUME workload \in Workloads, NEW cmd \in Commands, NEW S \in SUBSET Fences,
         NEW type \in EventTypes
  PROVE  LET s == SetToSeq(S)
             es == [n \in 1 .. Len(s) |-> Event(cmd.client, cmd, type, {s[n]})]
         IN  es \in Seq(Recorded) /\ \A n \in 1 .. Len(es) : OfCommand(es[n], cmd.client, cmd)
<1> DEFINE s == SetToSeq(S)
           es == [n \in 1 .. Len(s) |-> Event(cmd.client, cmd, type, {s[n]})]
<1>1. IsFiniteSet(S)
  BY FencesAssumption, FS_Subset
<1>2. Len(s) \in Nat /\ s \in [1 .. Len(s) -> S]
  BY <1>1, OrderedSet
<1> HIDE DEF s
<1>3. ASSUME NEW n \in 1 .. Len(s)
      PROVE  /\ Event(cmd.client, cmd, type, {s[n]}) \in Recorded
             /\ OfCommand(Event(cmd.client, cmd, type, {s[n]}), cmd.client, cmd)
  <2>1. {s[n]} \in SUBSET Fences /\ cmd.client \in Aggregates
    BY <1>2, CommandTyped
  <2> QED BY <2>1, EventTyped
<1>4. es \in [1 .. Len(s) -> Recorded] /\ \A n \in 1 .. Len(s) : OfCommand(es[n], cmd.client, cmd)
  BY <1>3
<1>6. DOMAIN es = 1 .. Len(s)
  OBVIOUS
<1> HIDE DEF es
<1>5. es \in Seq(Recorded)
  BY <1>2, <1>4, SeqDef
<1>7. Len(es) = Len(s)
  <2>1. Len(es) \in Nat /\ DOMAIN es = 1 .. Len(es)
    BY <1>5, LenProperties
  <2> QED BY <1>2, <1>6, <2>1
<1> QED BY <1>4, <1>5, <1>7 DEF s, es

\* Two sequences of events of an aggregate after each other.
LEMMA Joined ==
  ASSUME NEW p \in Seq(Recorded), NEW q \in Seq(Recorded)
  PROVE  /\ p \o q \in Seq(Recorded)
         /\ Len(p) \in Nat /\ Len(q) \in Nat /\ Len(p \o q) = Len(p) + Len(q)
         /\ \A n \in 1 .. Len(p) : n \in 1 .. Len(p \o q) /\ (p \o q)[n] = p[n]
         /\ \A n \in 1 .. Len(p \o q) : \/ n \in 1 .. Len(p) /\ (p \o q)[n] = p[n]
                                        \/ /\ n - Len(p) \in 1 .. Len(q)
                                           /\ (p \o q)[n] = q[n - Len(p)]
<1> DEFINE r == p \o q
<1>1. /\ r \in Seq(Recorded) /\ Len(r) = Len(p) + Len(q)
      /\ \A n \in 1 .. Len(p) + Len(q) : r[n] = IF n <= Len(p) THEN p[n] ELSE q[n - Len(p)]
  BY ConcatProperties
<1>2. Len(p) \in Nat /\ Len(q) \in Nat
  BY LenProperties
<1> HIDE DEF r
<1>3. ASSUME NEW n \in 1 .. Len(p) PROVE n \in 1 .. Len(r) /\ r[n] = p[n]
  <2>1. n \in 1 .. Len(p) + Len(q) /\ n <= Len(p)
    BY <1>2
  <2> QED BY <1>1, <2>1
<1>4. ASSUME NEW n \in 1 .. Len(r)
      PROVE  \/ n \in 1 .. Len(p) /\ r[n] = p[n]
             \/ n - Len(p) \in 1 .. Len(q) /\ r[n] = q[n - Len(p)]
  <2>1. CASE n <= Len(p)
    BY <1>1, <1>2, <2>1
  <2>2. CASE ~(n <= Len(p))
    BY <1>1, <1>2, <2>2
  <2> QED BY <2>1, <2>2
<1> QED BY <1>1, <1>2, <1>3, <1>4 DEF r

LEMMA OneTyped ==
  ASSUME workload \in Workloads, NEW cmd \in Commands, NEW type \in EventTypes
  PROVE  /\ One(cmd, type) \in Seq(Recorded) /\ Len(One(cmd, type)) = 1
         /\ \A n \in 1 .. Len(One(cmd, type)) :
               OfCommand(One(cmd, type)[n], cmd.client, cmd) /\ One(cmd, type)[n].type = type
<1> DEFINE e == Event(cmd.client, cmd, type, cmd.within)
<1>1. cmd.within \in SUBSET Fences /\ cmd.client \in Aggregates
  BY CommandTyped
<1>2. e \in Recorded /\ OfCommand(e, cmd.client, cmd) /\ e.type = type
  BY <1>1, EventTyped
<1> HIDE DEF e
<1>3. One(cmd, type) = <<e>>
  BY DEF One, e
<1>4. <<e>> \in Seq(Recorded) /\ Len(<<e>>) = 1 /\ <<e>>[1] = e
  BY <1>2
<1>5. \A n \in 1 .. Len(<<e>>) : n = 1
  BY <1>4
<1> QED BY <1>2, <1>3, <1>4, <1>5

LEMMA CrossingsTyped ==
  ASSUME workload \in Workloads, NEW cmd \in Commands, NEW s
  PROVE  /\ Crossings(cmd, s) \in Seq(Recorded)
         /\ \A n \in 1 .. Len(Crossings(cmd, s)) : OfCommand(Crossings(cmd, s)[n], cmd.client, cmd)
<1> DEFINE configured == UNION {s.fences[r] : r \in Rooms}
           E == {f \in Fences : f \in (configured \cap cmd.within) \ s.inside}
           X == {f \in Fences : f \in (configured \cap s.inside) \ cmd.within}
           entered == SetToSeq(E)
           exited == SetToSeq(X)
           p == [n \in 1 .. Len(entered) |-> Event(cmd.client, cmd, "geofence_entered", {entered[n]})]
           q == [n \in 1 .. Len(exited) |-> Event(cmd.client, cmd, "geofence_exited", {exited[n]})]
<1>1. E \in SUBSET Fences /\ X \in SUBSET Fences
  OBVIOUS
<1>2. Crossings(cmd, s) = p \o q
  BY DEF Crossings
<1> HIDE DEF configured, E, X
<1>3. p \in Seq(Recorded) /\ \A n \in 1 .. Len(p) : OfCommand(p[n], cmd.client, cmd)
  <2>1. "geofence_entered" \in EventTypes
    BY DEF EventTypes
  <2> QED BY <1>1, <2>1, PerFence
<1>4. q \in Seq(Recorded) /\ \A n \in 1 .. Len(q) : OfCommand(q[n], cmd.client, cmd)
  <2>1. "geofence_exited" \in EventTypes
    BY DEF EventTypes
  <2> QED BY <1>1, <2>1, PerFence
<1> HIDE DEF p, q
<1>5. /\ p \o q \in Seq(Recorded)
      /\ \A n \in 1 .. Len(p \o q) : \/ n \in 1 .. Len(p) /\ (p \o q)[n] = p[n]
                                     \/ /\ n - Len(p) \in 1 .. Len(q)
                                        /\ (p \o q)[n] = q[n - Len(p)]
  BY <1>3, <1>4, Joined
<1> QED BY <1>2, <1>3, <1>4, <1>5

\* The events of a command on its vehicle or its room.
LEMMA DecidedTyped ==
  ASSUME workload \in Workloads, NEW cmd \in Commands, NEW s, NEW kind, NEW a,
         \/ kind = "vehicle" /\ a = cmd.client
         \/ kind = "room" /\ a = cmd.room
  PROVE  /\ Decided(kind, cmd, s) \in Seq(Recorded)
         /\ \A n \in 1 .. Len(Decided(kind, cmd, s)) :
               /\ OfCommand(Decided(kind, cmd, s)[n], a, cmd)
               /\ kind = "vehicle" /\ TouchesRoom(cmd) => Decided(kind, cmd, s)[n].type \in Membership
<1>1. /\ cmd.type \in CommandTypes /\ cmd.client \in Aggregates /\ cmd.room \in Aggregates
      /\ cmd.client \in Clients /\ cmd.room \in Rooms
  BY CommandTyped
<1>2. CASE kind = "room" /\ a = cmd.room
  <2> DEFINE type == IF cmd.type = "join_room" THEN "room_joined" ELSE "room_left"
             e == Event(cmd.room, cmd, type, {})
  <2>1. type \in EventTypes /\ {} \in SUBSET Fences
    BY DEF EventTypes
  <2> HIDE DEF type
  <2>2. e \in Recorded /\ OfCommand(e, cmd.room, cmd)
    BY <1>1, <2>1, EventTyped
  <2>3. Decided(kind, cmd, s) = <<e>>
    BY <1>1, <1>2 DEF Decided, RoomEvents, type
  <2> HIDE DEF e
  <2>4. <<e>> \in Seq(Recorded) /\ Len(<<e>>) = 1 /\ <<e>>[1] = e
    BY <2>2
  <2>5. \A n \in 1 .. Len(<<e>>) : n = 1
    BY <2>4
  <2> QED BY <1>1, <1>2, <2>2, <2>3, <2>4, <2>5
<1>3. CASE kind = "vehicle" /\ a = cmd.client
  <2> DEFINE es == VehicleEvents(cmd, s)
  <2>1. Decided(kind, cmd, s) = es
    BY <1>1, <1>3 DEF Decided
  <2>2. <<>> \in Seq(Recorded) /\ \A n \in 1 .. Len(<<>>) : FALSE
    OBVIOUS
  <2>3. CASE cmd.type = "publish_location"
    <3>1. "location_update" \in EventTypes
      BY DEF EventTypes
    <3> DEFINE p == One(cmd, "location_update")
               q == Crossings(cmd, s)
    <3>2. p \in Seq(Recorded) /\ \A n \in 1 .. Len(p) : OfCommand(p[n], cmd.client, cmd)
      BY <3>1, OneTyped
    <3>3. q \in Seq(Recorded) /\ \A n \in 1 .. Len(q) : OfCommand(q[n], cmd.client, cmd)
      BY CrossingsTyped
    <3>4. es = p \o q /\ ~TouchesRoom(cmd)
      BY <2>3 DEF VehicleEvents, TouchesRoom
    <3> HIDE DEF p, q, es
    <3>5. /\ p \o q \in Seq(Recorded)
          /\ \A n \in 1 .. Len(p \o q) : \/ n \in 1 .. Len(p) /\ (p \o q)[n] = p[n]
                                         \/ /\ n - Len(p) \in 1 .. Len(q)
                                            /\ (p \o q)[n] = q[n - Len(p)]
      BY <3>2, <3>3, Joined
    <3> QED BY <1>3, <2>1, <3>2, <3>3, <3>4, <3>5
  <2>4. CASE cmd.type # "publish_location"
    <3>1. PICK type \in EventTypes :
             /\ es = <<>> \/ es = One(cmd, type)
             /\ TouchesRoom(cmd) => type \in Membership
      <4>1. CASE cmd.type = "join_room"
        <5>1. "room_joined" \in EventTypes \cap Membership
          BY DEF EventTypes, Membership
        <5>2. es = <<>> \/ es = One(cmd, "room_joined")
          BY <4>1 DEF VehicleEvents
        <5> QED BY <5>1, <5>2
      <4>2. CASE cmd.type = "leave_room"
        <5>1. "room_left" \in EventTypes \cap Membership
          BY DEF EventTypes, Membership
        <5>2. es = <<>> \/ es = One(cmd, "room_left")
          BY <4>2 DEF VehicleEvents
        <5> QED BY <5>1, <5>2
      <4>3. CASE cmd.type = "acknowledge"
        <5>1. "message_ack" \in EventTypes /\ ~TouchesRoom(cmd)
          BY <4>3 DEF EventTypes, TouchesRoom
        <5>2. es = <<>> \/ es = One(cmd, "message_ack")
          BY <4>3 DEF VehicleEvents
        <5> QED BY <5>1, <5>2
      <4>4. CASE cmd.type = "negative_acknowledge"
        <5>1. "message_nack" \in EventTypes /\ ~TouchesRoom(cmd)
          BY <4>4 DEF EventTypes, TouchesRoom
        <5>2. es = One(cmd, "message_nack")
          BY <4>4 DEF VehicleEvents
        <5> QED BY <5>1, <5>2
      <4>5. CASE cmd.type = "update_geofence"
        <5>1. "geofence_updated" \in EventTypes /\ ~TouchesRoom(cmd)
          BY <4>5 DEF EventTypes, TouchesRoom
        <5>2. es = One(cmd, "geofence_updated")
          BY <4>5 DEF VehicleEvents
        <5> QED BY <5>1, <5>2
      <4>6. CASE cmd.type = "resume_session"
        <5>1. "session_resumed" \in EventTypes /\ ~TouchesRoom(cmd)
          BY <4>6 DEF EventTypes, TouchesRoom
        <5>2. es = One(cmd, "session_resumed")
          BY <4>6 DEF VehicleEvents
        <5> QED BY <5>1, <5>2
      <4> QED BY <1>1, <2>4, <4>1, <4>2, <4>3, <4>4, <4>5, <4>6 DEF CommandTypes
    <3>2. /\ One(cmd, type) \in Seq(Recorded)
          /\ \A n \in 1 .. Len(One(cmd, type)) :
                OfCommand(One(cmd, type)[n], cmd.client, cmd) /\ One(cmd, type)[n].type = type
      BY OneTyped
    <3> HIDE DEF es
    <3> QED BY <1>3, <2>1, <2>2, <3>1, <3>2
  <2> QED BY <2>3, <2>4
<1> QED BY <1>2, <1>3

\* record() gives consecutive numbers.
LEMMA NumberedTyped ==
  ASSUME workload \in Workloads, NEW es \in Seq(Recorded), NEW base \in Nat
  PROVE  /\ Numbered(es, base) \in Seq(Recorded) /\ Len(Numbered(es, base)) = Len(es) /\ Len(es) \in Nat
         /\ \A n \in 1 .. Len(es) : /\ Numbered(es, base)[n].sequence = base + n
                                    /\ Numbered(es, base)[n].aggregate = es[n].aggregate
                                    /\ Numbered(es, base)[n].cause = es[n].cause
                                    /\ Numbered(es, base)[n].client = es[n].client
                                    /\ Numbered(es, base)[n].type = es[n].type
<1> DEFINE b == Numbered(es, base)
<1>1. Len(es) \in Nat /\ \A n \in 1 .. Len(es) : es[n] \in Recorded
  BY LenProperties, ElementOfSeq
<1>2. b = [n \in 1 .. Len(es) |-> [es[n] EXCEPT !.sequence = base + n]]
  BY DEF Numbered
<1> HIDE DEF b
<1>3. ASSUME NEW n \in 1 .. Len(es)
      PROVE  b[n] \in Recorded /\ b[n].sequence = base + n /\ b[n].aggregate = es[n].aggregate
             /\ b[n].type = es[n].type /\ b[n].cause = es[n].cause /\ b[n].client = es[n].client
  <2>1. b[n] = [es[n] EXCEPT !.sequence = base + n] /\ base + n \in Nat
    BY <1>1, <1>2
  <2> QED BY <1>1, <2>1 DEF Recorded
<1>4. b \in [1 .. Len(es) -> Recorded]
  BY <1>2, <1>3
<1>5. b \in Seq(Recorded)
  BY <1>1, <1>4, SeqDef
<1>6. Len(b) = Len(es)
  <2>1. Len(b) \in Nat /\ DOMAIN b = 1 .. Len(b)
    BY <1>5, LenProperties
  <2> QED BY <1>1, <1>4, <2>1
<1> QED BY <1>1, <1>3, <1>5, <1>6 DEF b

-----------------------------------------------------------------------------
(* getEvents. *)

\* A set of naturals has a least element.
LEMMA LeastNat ==
  ASSUME NEW T, T \subseteq Nat, T # {}
  PROVE  \E x \in T : \A y \in T : x <= y
<1>1. PICK x \in T : \A y \in T : ~ (<<y, x>> \in OpToRel(<, Nat))
  BY NatLessThanWellFounded, WFMin
<1>2. ASSUME NEW y \in T PROVE x <= y
  <2>1. x \in Nat /\ y \in Nat
    OBVIOUS
  <2>2. y < x => <<y, x>> \in OpToRel(<, Nat)
    BY <2>1 DEF OpToRel
  <2>3. ~(y < x)
    BY <1>1, <2>2
  <2> QED BY <2>1, <2>3
<1> QED BY <1>2

\* Some index of a set has k indices of the set up to it, for every k that can be.
LEMMA Ranked ==
  ASSUME NEW L \in Nat, NEW kept \in SUBSET (1 .. L), NEW k \in 1 .. Cardinality(kept)
  PROVE  \E n \in kept : Cardinality({m \in kept : m <= n}) = k
<1> DEFINE Below(n) == {m \in kept : m <= n}
           c(n) == Cardinality(Below(n))
           T == {n \in Nat : k <= c(n)}
<1>1. IsFiniteSet(1 .. L)
  BY FS_Interval
<1>2. IsFiniteSet(kept)
  BY <1>1, FS_Subset
<1>3. \A n : Below(n) \subseteq kept
  OBVIOUS
<1>4. \A n : IsFiniteSet(Below(n))
  BY <1>2, <1>3, FS_Subset
<1>5. \A n : c(n) \in Nat
  BY <1>4, FS_CardinalityType
<1>a. \A m \in kept : m \in Nat /\ 1 <= m /\ m <= L
  OBVIOUS
<1>6. Below(L) = kept /\ Below(0) = {}
  <2>1. \A m \in kept : m <= L /\ ~(m <= 0)
    BY <1>a
  <2> QED BY <2>1, Zenon
<1>7. c(0) = 0 /\ c(L) = Cardinality(kept) /\ Cardinality(kept) \in Nat
  BY <1>2, <1>6, FS_EmptySet, FS_CardinalityType
<1>8. ASSUME NEW x \in Nat, x + 1 \in kept PROVE c(x + 1) = c(x) + 1
  <2>a. (\A m \in kept : m <= x + 1 <=> (m <= x \/ m = x + 1)) /\ ~(x + 1 <= x) /\ x + 1 <= x + 1
    BY <1>a
  <2>1. Below(x + 1) = Below(x) \cup {x + 1} /\ x + 1 \notin Below(x)
    BY <1>8, <2>a, Zenon
  <2>2. IsFiniteSet(Below(x))
    BY <1>4
  <2> DEFINE B == Below(x)
             z == x + 1
  <2>3. IsFiniteSet(B) /\ z \notin B /\ Below(x + 1) = B \cup {z}
    BY <2>1, <2>2
  <2> HIDE DEF B, z
  <2>4. Cardinality(B \cup {z}) = Cardinality(B) + 1
    BY <2>3, FS_AddElement
  <2> QED BY <2>3, <2>4 DEF B
<1>9. ASSUME NEW x \in Nat, x + 1 \notin kept PROVE c(x + 1) = c(x)
  <2>a. \A m \in kept : m <= x + 1 <=> m <= x
    BY <1>9, <1>a
  <2>1. Below(x + 1) = Below(x)
    BY <2>a, Zenon
  <2> QED BY <2>1
<1>10. k \in Nat /\ 1 <= k /\ L \in T /\ T \subseteq Nat
  BY <1>5, <1>7
<1> HIDE DEF Below, c
<1>11. PICK x \in T : \A y \in T : x <= y
  <2> HIDE DEF T
  <2> QED BY <1>10, LeastNat
<1>12. x \in Nat /\ k <= c(x) /\ x # 0
  BY <1>7, <1>10, <1>11
<1>13. x - 1 \in Nat /\ x - 1 \notin T /\ (x - 1) + 1 = x
  BY <1>11, <1>12
<1>14. c(x - 1) \in Nat /\ c(x - 1) < k
  BY <1>5, <1>10, <1>13
<1>15. x \in kept
  BY <1>9, <1>12, <1>13, <1>14, <1>10
<1>16. c(x) = c(x - 1) + 1
  BY <1>8, <1>13, <1>15
<1>17. c(x) = k
  BY <1>10, <1>12, <1>14, <1>16
<1> QED BY <1>15, <1>17 DEF c, Below

\* The indices in the log of what getEvents returns.
Kept(a, from, to) == {n \in 1 .. Len(log[a]) : log[a][n].sequence >= from /\ log[a][n].sequence <= to}

\* es lists the events with the indices kept, in their order.
Lists(es, a, kept) ==
    /\ es \in Seq(Recorded) /\ Len(es) = Cardinality(kept) /\ IsFiniteSet(kept)
    /\ \A k \in 1 .. Cardinality(kept) : \E n \in kept :
          Cardinality({m \in kept : m <= n}) = k /\ es[k] = log[a][n]

LEMMA EventsAre ==
  ASSUME Types, NEW a \in Aggregates, NEW from, NEW to
  PROVE  Lists(Events(a, from, to), a, Kept(a, from, to))
<1> DEFINE kept == Kept(a, from, to)
           Place(n) == Cardinality({m \in kept : m <= n})
           index(k) == CHOOSE n \in kept : Place(n) = k
           es == Events(a, from, to)
<1>1. log[a] \in Seq(Recorded)
  BY DEF Types
<1>2. Len(log[a]) \in Nat /\ \A n \in 1 .. Len(log[a]) : log[a][n] \in Recorded
  BY <1>1, LenProperties, ElementOfSeq
<1>3. kept \in SUBSET (1 .. Len(log[a]))
  BY DEF Kept
<1>4. es = [k \in 1 .. Cardinality(kept) |-> log[a][index(k)]]
  BY DEF Events, Kept
<1> HIDE DEF kept, es
<1>5. IsFiniteSet(kept) /\ Cardinality(kept) \in Nat
  <2>1. IsFiniteSet(1 .. Len(log[a]))
    BY <1>2, FS_Interval
  <2>2. IsFiniteSet(kept)
    BY <1>3, <2>1, FS_Subset
  <2> QED BY <2>2, FS_CardinalityType
<1>6. ASSUME NEW k \in 1 .. Cardinality(kept)
      PROVE  index(k) \in kept /\ Place(index(k)) = k
  <2>1. \E n \in kept : Place(n) = k
    BY <1>2, <1>3, Ranked
  <2> HIDE DEF Place
  <2> QED BY <2>1
<1> HIDE DEF index
<1>7. ASSUME NEW k \in 1 .. Cardinality(kept)
      PROVE  es[k] = log[a][index(k)] /\ es[k] \in Recorded
  BY <1>2, <1>3, <1>4, <1>6
<1>8. es \in [1 .. Cardinality(kept) -> Recorded]
  BY <1>4, <1>7
<1>9. es \in Seq(Recorded)
  BY <1>5, <1>8, SeqDef
<1>10. Len(es) = Cardinality(kept)
  <2>1. Len(es) \in Nat /\ DOMAIN es = 1 .. Len(es)
    BY <1>9, LenProperties
  <2> QED BY <1>5, <1>8, <2>1
<1>11. \A k \in 1 .. Cardinality(kept) : \E n \in kept : Place(n) = k /\ es[k] = log[a][n]
  BY <1>6, <1>7
<1> QED BY <1>5, <1>9, <1>10, <1>11 DEF kept, es, Lists

\* The number that a loaded aggregate has.
Reached(a, sequence) ==
    IF Delta(a, sequence) = <<>> THEN sequence ELSE Last(Delta(a, sequence)).sequence

LEMMA ReachedTyped ==
  ASSUME Types, NEW a \in Aggregates, NEW sequence \in Nat
  PROVE  Reached(a, sequence) \in Nat
<1> DEFINE es == Delta(a, sequence)
<1>1. es \in Seq(Recorded)
  BY EventsAre DEF Delta, Lists
<1> HIDE DEF es
<1>2. CASE es # <<>>
  <2>1. Len(es) \in 1 .. Len(es)
    BY <1>1, <1>2, EmptySeq, LenProperties
  <2>2. es[Len(es)] \in Recorded
    BY <1>1, <2>1, ElementOfSeq
  <2>3. es[Len(es)].sequence \in Nat
    BY <2>2 DEF Recorded
  <2> QED BY <1>2, <2>3 DEF Reached, Last, es
<1>3. CASE es = <<>>
  BY <1>3 DEF Reached, es
<1> QED BY <1>2, <1>3

\* A snapshot and the events after it lead to the end of a dense log.
LEMMA ReachedEnd ==
  ASSUME Types, NEW a \in Aggregates, NEW sequence \in Nat, sequence <= Len(log[a]),
         Len(log[a]) <= MaxEvents, MaxEvents \in Nat,
         \A n \in 1 .. Len(log[a]) : log[a][n].sequence = n
  PROVE  Reached(a, sequence) = Len(log[a])
<1> DEFINE L == Len(log[a])
           es == Delta(a, sequence)
           kept == Kept(a, sequence + 1, MaxEvents)
<1>1. L \in Nat
  BY LenProperties DEF Types
<1>2. /\ es \in Seq(Recorded) /\ Len(es) = Cardinality(kept) /\ IsFiniteSet(kept)
      /\ \A k \in 1 .. Cardinality(kept) : \E n \in kept :
            Cardinality({m \in kept : m <= n}) = k /\ es[k] = log[a][n]
  <2>1. Lists(es, a, kept)
    BY EventsAre DEF Delta
  <2> HIDE DEF es, kept
  <2> QED BY <2>1 DEF Lists
<1>3. \A n : n \in kept <=> n \in sequence + 1 .. L
  BY <1>1 DEF Kept
<1>4. \A n \in kept : log[a][n].sequence = n /\ n \in 1 .. L
  BY DEF Kept
<1> HIDE DEF kept, es
<1>5. Cardinality(kept) \in Nat
  BY <1>2, FS_CardinalityType
<1>6. CASE es = <<>>
  <2>1. Cardinality(kept) = 0
    BY <1>2, <1>6
  <2>2. kept = {}
    BY <1>2, <2>1, FS_EmptySet
  <2>3. ~(sequence < L)
    BY <1>1, <1>3, <2>2
  <2>4. sequence = L
    BY <1>1, <2>3
  <2> QED BY <1>6, <2>4 DEF Reached, es
<1>7. CASE es # <<>>
  <2>1. Cardinality(kept) \in 1 .. Cardinality(kept)
    BY <1>2, <1>5, <1>7, EmptySeq
  <2>2. PICK n \in kept : Cardinality({m \in kept : m <= n}) = Cardinality(kept)
                          /\ es[Cardinality(kept)] = log[a][n]
    BY <1>2, <2>1
  <2> DEFINE below == {m \in kept : m <= n}
  <2>3. below \subseteq kept /\ Cardinality(below) = Cardinality(kept)
    BY <2>2
  <2>4. below = kept
    BY <1>2, <2>3, FS_Subset
  <2>5. n \in 1 .. L /\ log[a][n].sequence = n
    BY <1>4
  <2>6. L \in kept
    BY <1>1, <1>3, <2>2
  <2>7. L <= n
    BY <2>4, <2>6
  <2>8. n = L
    BY <1>1, <2>5, <2>7
  <2>9. Last(es).sequence = L
    BY <1>2, <2>2, <2>5, <2>8 DEF Last
  <2> QED BY <1>7, <2>9 DEF Reached, es
<1> QED BY <1>6, <1>7

-----------------------------------------------------------------------------
(* The parts of the invariant after a step. *)

Inv == Types /\ SequencesDense /\ Accounted /\ Alone

LEMMA Sizes ==
  ASSUME Types
  PROVE  /\ MaxEvents \in Nat /\ Transactional \in BOOLEAN /\ IsFiniteSet(Dispatches)
         /\ \A a \in Aggregates : log[a] \in Seq(Recorded) /\ Len(log[a]) \in Nat
<1>1. \A a \in Aggregates : log[a] \in Seq(Recorded)
  BY DEF Types
<1>2. \A a \in Aggregates : Len(log[a]) \in Nat
  BY <1>1, LenProperties
<1> QED BY <1>1, <1>2, WorkloadAssumption DEF Types, MaxEvents, Transactional, Dispatches

LEMMA OnlyDispatch ==
  ASSUME Types, Cardinality(Dispatches) = 1, NEW d \in Dispatches
  PROVE  Dispatches = {d}
<1>1. IsFiniteSet(Dispatches)
  BY Sizes
<1>2. \E x : Dispatches = {x}
  BY <1>1, FS_Singleton
<1> QED BY <1>2

LEMMA Moved ==
  ASSUME Types, NEW d \in Dispatches, NEW to, Goes(d, to), WellFormed(to)
  PROVE  /\ DOMAIN dispatches' = Dispatches /\ dispatches'[d] = to
         /\ \A x \in Dispatches : x # d => dispatches'[x] = dispatches[x]
         /\ \A x \in Dispatches : WellFormed(dispatches'[x])
<1>1. DOMAIN dispatches = Dispatches /\ dispatches' = [dispatches EXCEPT ![d] = to]
  BY DEF Types, Goes
<1>2. /\ DOMAIN dispatches' = Dispatches /\ dispatches'[d] = to
      /\ \A x \in Dispatches : x # d => dispatches'[x] = dispatches[x]
  BY <1>1
<1>3. ASSUME NEW x \in Dispatches PROVE WellFormed(dispatches'[x])
  <2>1. CASE x = d
    BY <1>2, <2>1
  <2>2. CASE x # d
    <3>1. dispatches'[x] = dispatches[x] /\ WellFormed(dispatches[x])
      BY <1>2, <2>2 DEF Types
    <3> QED BY <3>1
  <2> QED BY <2>1, <2>2
<1> QED BY <1>2, <1>3

LEMMA TypesAfter ==
  ASSUME workload \in Workloads, workload' = workload,
         log' \in [Aggregates -> Seq(Recorded)],
         DOMAIN snapshots' = Aggregates, \A a \in Aggregates : snapshots'[a].sequence \in Nat,
         DOMAIN writing' = Aggregates,
         \A a \in Aggregates : \A snap \in writing'[a] : snap.sequence \in Nat,
         DOMAIN dispatches' = Dispatches, \A d \in Dispatches : WellFormed(dispatches'[d])
  PROVE  Types'
<1>1. Dispatches' = Dispatches /\ Commands' = Commands /\ Transactional' = Transactional
  BY DEF Dispatches, Commands, Transactional
<1>2. Recorded' = Recorded
  BY <1>1 DEF Recorded, Aggregates
<1>3. Loose' = Loose
  BY <1>2 DEF Loose, Membership
<1>4. ASSUME NEW d \in Dispatches PROVE WellFormed(dispatches[d])'
  <2>1. WellFormed(dispatches'[d])
    OBVIOUS
  <2> DEFINE it == dispatches'[d]
  <2>2. LooseOf(it.cmd) = (LooseOf(dispatches[d].cmd))'
    BY <1>3 DEF LooseOf
  <2> QED BY <1>1, <1>2, <2>1, <2>2 DEF WellFormed, Loaded, Staged, TouchesRoom, Membership, OfCommand
<1> QED BY <1>1, <1>2, <1>4, Zenon DEF Types, Aggregates

\* Known(e) after a step, with its parts.
LEMMA KnownAfter ==
  ASSUME workload' = workload, NEW a \in Aggregates, NEW n,
         \/ log'[a][n] \in published'
         \/ \E d \in Dispatches : log'[a][n] \in Carried(dispatches'[d])
  PROVE  Known(log[a][n])'
BY DEF Known, Dispatches, Carried, Staged

LEMMA AccountedAfter ==
  ASSUME workload' = workload,
         \A a \in Aggregates : \A n \in 1 .. Len(log'[a]) :
            \/ LeftBy(log'[a][n], rejected')
            \/ log'[a][n] \in published'
            \/ \E d \in Dispatches : log'[a][n] \in Carried(dispatches'[d])
  PROVE  Accounted'
<1>1. Loose' = Loose /\ Transactional' = Transactional
  BY DEF Loose, Recorded, Commands, Transactional
<1>2. ASSUME NEW a \in Aggregates, NEW n \in 1 .. Len(log'[a])
      PROVE  Known(log[a][n])' \/ LeftBy(log[a][n], rejected)'
  <2>1. CASE LeftBy(log'[a][n], rejected')
    BY <1>1, <2>1 DEF LeftBy
  <2>2. CASE ~LeftBy(log'[a][n], rejected')
    BY <2>2, KnownAfter
  <2> QED BY <2>1, <2>2
<1> QED BY <1>2, Zenon DEF Accounted, Aggregates

LEMMA AloneAfter ==
  ASSUME workload' = workload,
         Cardinality(Dispatches) = 1 =>
            /\ \A a \in Aggregates : /\ Len(log'[a]) <= MaxEvents
                                     /\ snapshots'[a].sequence <= Len(log'[a])
                                     /\ \A snap \in writing'[a] : snap.sequence <= Len(log'[a])
            /\ \A d \in Dispatches :
                  /\ dispatches'[d].pc = "events" => dispatches'[d].sequence <= Len(log'[dispatches'[d].aggregate])
                  /\ dispatches'[d].pc \in Staged => dispatches'[d].sequence = Len(log'[dispatches'[d].aggregate])
            /\ ~Transactional => \A a \in Aggregates : \A n \in 1 .. Len(log'[a]) :
                  \/ log'[a][n] \in published'
                  \/ \E d \in Dispatches : log'[a][n] \in Carried(dispatches'[d])
  PROVE  Alone'
<1>1. Dispatches' = Dispatches /\ MaxEvents' = MaxEvents /\ Transactional' = Transactional
  BY DEF Dispatches, MaxEvents, Transactional
<1>2. SUFFICES ASSUME Cardinality(Dispatches) = 1
               PROVE  StoreCurrent' /\ HandlersCurrent' /\ (~Transactional => AllKnown')
  BY <1>1, Zenon DEF Alone
<1>3. StoreCurrent'
  BY <1>1, <1>2 DEF StoreCurrent, Aggregates
<1>4. HandlersCurrent'
  BY <1>1, <1>2 DEF HandlersCurrent, Staged
<1>5. ASSUME ~Transactional, NEW a \in Aggregates, NEW n \in 1 .. Len(log'[a]) PROVE Known(log[a][n])'
  BY <1>2, <1>5, KnownAfter
<1>6. ~Transactional => AllKnown'
  BY <1>5, Zenon DEF AllKnown, Aggregates
<1> QED BY <1>3, <1>4, <1>6

LEMMA DenseAfter ==
  ASSUME workload' = workload,
         ~Transactional \/ Cardinality(Dispatches) = 1 =>
            \A a \in Aggregates : \A n \in 1 .. Len(log'[a]) : log'[a][n].sequence = n
  PROVE  SequencesDense'
BY DEF SequencesDense, Guarded, Transactional, Dispatches, Aggregates

\* The optimistic check compares with the length of a dense log.
LEMMA HighestIsLength ==
  ASSUME Types, NEW a \in Aggregates, \A n \in 1 .. Len(log[a]) : log[a][n].sequence = n
  PROVE  HighestSequence(a) = Len(log[a])
<1> DEFINE q == log[a]
           L == Len(log[a])
<1>1. q \in Seq(Recorded) /\ L \in Nat
  BY Sizes
<1>2. DOMAIN q = 1 .. L
  BY <1>1, LenProperties
<1>3. CASE q = <<>>
  <2>1. L = 0
    BY <1>3
  <2> QED BY <1>3, <2>1 DEF HighestSequence
<1>4. CASE q # <<>>
  <2>1. L \in 1 .. L
    BY <1>1, <1>4, EmptySeq
  <2>2. Last(q).sequence = L
    BY <2>1 DEF Last
  <2> DEFINE S == {e.sequence : e \in ToSet(q)}
  <2>3. \A e : e \in ToSet(q) <=> \E n \in 1 .. L : e = q[n]
    BY <1>2 DEF ToSet
  <2>4. L \in S
    BY <2>1, <2>3
  <2>5. \A x \in S : x \in 1 .. L
    BY <2>3
  <2> HIDE DEF S
  <2>6. Max(S) = L
    <3>1. \A y \in S : L >= y
      BY <1>1, <2>5
    <3>2. \A x \in S : (\A y \in S : x >= y) => x = L
      BY <1>1, <2>4, <2>5
    <3> QED BY <2>4, <3>1, <3>2 DEF Max
  <2> QED BY <1>4, <2>2, <2>6 DEF HighestSequence, S
<1> QED BY <1>3, <1>4

-----------------------------------------------------------------------------
(* The steps. *)

\* A handler moves on and touches nothing else; what it carried it carries on, or it is
\* rejected, which a handler alone is by the SQL store only.
LEMMA QuietKept ==
  ASSUME Inv, NEW d \in Dispatches, NEW to, Goes(d, to), WellFormed(to),
         UNCHANGED <<workload, log, snapshots, writing, published>>, rejected \subseteq rejected',
         \/ Carried(dispatches[d]) \subseteq Carried(to)
         \/ /\ \A e \in Carried(dispatches[d]) : LeftBy(e, rejected')
            /\ Transactional \/ Cardinality(Dispatches) # 1,
         Cardinality(Dispatches) = 1 =>
            /\ to.pc = "events" => to.sequence <= Len(log[to.aggregate])
            /\ to.pc \in Staged => to.sequence = Len(log[to.aggregate])
  PROVE  Inv'
<1>1. Types /\ SequencesDense /\ Accounted /\ Alone
  BY DEF Inv
<1>2. /\ DOMAIN dispatches' = Dispatches /\ dispatches'[d] = to
      /\ \A x \in Dispatches : x # d => dispatches'[x] = dispatches[x]
      /\ \A x \in Dispatches : WellFormed(dispatches'[x])
  BY <1>1, Moved
<1>3. Types'
  BY <1>1, <1>2, TypesAfter DEF Types
<1>4. SequencesDense'
  BY <1>1, DenseAfter DEF SequencesDense, Guarded
<1>5. ASSUME NEW e, Known(e)
      PROVE  \/ e \in published' \/ \E x \in Dispatches : e \in Carried(dispatches'[x])
             \/ LeftBy(e, rejected') /\ (Transactional \/ Cardinality(Dispatches) # 1)
  <2>1. CASE e \in published
    BY <2>1
  <2>2. ASSUME NEW x \in Dispatches, e \in Carried(dispatches[x])
        PROVE  \/ \E y \in Dispatches : e \in Carried(dispatches'[y])
               \/ LeftBy(e, rejected') /\ (Transactional \/ Cardinality(Dispatches) # 1)
    <3>1. CASE x = d
      <4>1. \/ e \in Carried(to)
            \/ LeftBy(e, rejected') /\ (Transactional \/ Cardinality(Dispatches) # 1)
        BY <2>2, <3>1
      <4> QED BY <1>2, <4>1
    <3>2. CASE x # d
      <4>1. dispatches'[x] = dispatches[x]
        BY <1>2, <3>2
      <4>2. e \in Carried(dispatches'[x])
        BY <2>2, <4>1
      <4> QED BY <4>2
    <3> QED BY <3>1, <3>2
  <2> QED BY <1>5, <2>1, <2>2 DEF Known
<1>6. ASSUME NEW a \in Aggregates, NEW n \in 1 .. Len(log'[a])
      PROVE  \/ LeftBy(log'[a][n], rejected') \/ log'[a][n] \in published'
             \/ \E x \in Dispatches : log'[a][n] \in Carried(dispatches'[x])
  <2>1. LeftBy(log'[a][n], rejected) \/ Known(log'[a][n])
    BY <1>1 DEF Accounted
  <2>2. CASE LeftBy(log'[a][n], rejected)
    BY <2>2 DEF LeftBy
  <2>3. CASE Known(log'[a][n])
    BY <1>5, <2>3
  <2> QED BY <2>1, <2>2, <2>3
<1>7. Accounted'
  BY <1>6, AccountedAfter
<1>8. Alone'
  <2>1. ASSUME Cardinality(Dispatches) = 1
        PROVE  /\ \A a \in Aggregates : /\ Len(log'[a]) <= MaxEvents
                                        /\ snapshots'[a].sequence <= Len(log'[a])
                                        /\ \A snap \in writing'[a] : snap.sequence <= Len(log'[a])
               /\ \A x \in Dispatches :
                     /\ dispatches'[x].pc = "events" =>
                           dispatches'[x].sequence <= Len(log'[dispatches'[x].aggregate])
                     /\ dispatches'[x].pc \in Staged =>
                           dispatches'[x].sequence = Len(log'[dispatches'[x].aggregate])
               /\ ~Transactional => \A a \in Aggregates : \A n \in 1 .. Len(log'[a]) :
                     \/ log'[a][n] \in published'
                     \/ \E x \in Dispatches : log'[a][n] \in Carried(dispatches'[x])
    <3>1. StoreCurrent /\ (~Transactional => AllKnown)
      BY <1>1, <2>1 DEF Alone
    <3>2. \A x \in Dispatches : dispatches'[x] = to
      BY <1>1, <1>2, <2>1, OnlyDispatch
    <3>3. \A a \in Aggregates : /\ Len(log'[a]) <= MaxEvents
                                /\ snapshots'[a].sequence <= Len(log'[a])
                                /\ \A snap \in writing'[a] : snap.sequence <= Len(log'[a])
      BY <3>1 DEF StoreCurrent
    <3>4. ASSUME NEW x \in Dispatches
          PROVE  /\ dispatches'[x].pc = "events" =>
                       dispatches'[x].sequence <= Len(log'[dispatches'[x].aggregate])
                 /\ dispatches'[x].pc \in Staged =>
                       dispatches'[x].sequence = Len(log'[dispatches'[x].aggregate])
      BY <2>1, <3>2
    <3>5. ASSUME ~Transactional, NEW a \in Aggregates, NEW n \in 1 .. Len(log'[a])
          PROVE  \/ log'[a][n] \in published'
                 \/ \E x \in Dispatches : log'[a][n] \in Carried(dispatches'[x])
      <4>1. Known(log'[a][n])
        BY <3>1, <3>5 DEF AllKnown
      <4> QED BY <1>5, <2>1, <3>5, <4>1
    <3> QED BY <3>3, <3>4, <3>5
  <2> QED BY <2>1, AloneAfter
<1> QED BY <1>3, <1>4, <1>7, <1>8 DEF Inv

LEMMA DispatchKept ==
  ASSUME Inv, NEW d \in Dispatches, NEW cmd \in Commands, Dispatch(d, cmd)
  PROVE  Inv'
<1> DEFINE to == [pc |-> "snapshot", cmd |-> cmd, kind |-> "vehicle", aggregate |-> cmd.client, events |-> {}]
<1>1. /\ dispatches[d] = Idle /\ Goes(d, to)
      /\ UNCHANGED <<workload, log, snapshots, writing, published, rejected>>
  BY DEF Dispatch
<1>2. WellFormed(to)
  BY DEF WellFormed, Loaded, Staged, OfKind
<1>3. Carried(dispatches[d]) = {} /\ to.pc \notin Staged /\ to.pc # "events"
  BY <1>1 DEF Carried, Idle, Staged
<1> HIDE DEF to
<1> QED BY <1>1, <1>2, <1>3, QuietKept

LEMMA ReadSnapshotKept ==
  ASSUME Inv, NEW d \in Dispatches, ReadSnapshot(d)
  PROVE  Inv'
<1> DEFINE it == dispatches[d]
           snap == snapshots[it.aggregate]
           to == [pc |-> "events", cmd |-> it.cmd, kind |-> it.kind, aggregate |-> it.aggregate,
                  events |-> it.events,
                  sequence |-> snap.sequence, state |-> Restored(it.kind, snap)]
<1>1. it.pc = "snapshot" /\ Goes(d, to) /\ UNCHANGED <<workload, log, snapshots, writing, published, rejected>>
  BY DEF ReadSnapshot
<1>2. it.cmd \in Commands /\ OfKind(it) /\ it.events \subseteq LooseOf(it.cmd)
  BY <1>1 DEF Inv, Types, WellFormed
<1>3. it.aggregate \in Aggregates
  BY <1>2, CommandTyped DEF Inv, Types, OfKind
<1>4. snap.sequence \in Nat
  BY <1>3 DEF Inv, Types
<1>5. Cardinality(Dispatches) = 1 => snap.sequence <= Len(log[it.aggregate])
  BY <1>3 DEF Inv, Alone, StoreCurrent
<1>6. /\ to.pc = "events" /\ to.cmd = it.cmd /\ to.aggregate = it.aggregate /\ to.events = it.events
      /\ to.sequence = snap.sequence /\ to.kind = it.kind
      /\ DOMAIN to = {"pc", "cmd", "kind", "aggregate", "events", "sequence", "state"}
  OBVIOUS
<1> HIDE DEF to, it, snap
<1>7. WellFormed(to)
  BY <1>2, <1>4, <1>6 DEF WellFormed, Loaded, Staged, OfKind
<1>8. Carried(it) \subseteq Carried(to) /\ to.pc \notin Staged
  BY <1>1, <1>6 DEF Carried, Staged
<1>9. Carried(dispatches[d]) \subseteq Carried(to)
  BY <1>8 DEF it
<1> QED BY <1>1, <1>5, <1>6, <1>7, <1>8, <1>9, QuietKept

\* Where the handler goes once an aggregate is done.
LEMMA ProceedTo ==
  ASSUME Types, NEW d \in Dispatches, dispatches[d].pc \in Loaded, NEW events, Proceed(d, events),
         dispatches[d].kind = "vehicle" /\ TouchesRoom(dispatches[d].cmd) =>
            events \subseteq LooseOf(dispatches[d].cmd)
  PROVE  \E to : /\ Goes(d, to) /\ WellFormed(to) /\ Carried(to) = events
                 /\ to.pc \in {"snapshot", "settled"}
<1> DEFINE it == dispatches[d]
           next == [pc |-> "snapshot", cmd |-> it.cmd, kind |-> "room", aggregate |-> it.cmd.room,
                    events |-> events]
           done == [pc |-> "settled", cmd |-> it.cmd, events |-> events]
<1>1. it.cmd \in Commands
  BY DEF Types, WellFormed, Loaded
<1>2. CASE it.kind = "vehicle" /\ TouchesRoom(it.cmd)
  <2>1. Goes(d, next)
    BY <1>2 DEF Proceed
  <2>2. WellFormed(next) /\ Carried(next) = events /\ next.pc = "snapshot"
    BY <1>1, <1>2 DEF WellFormed, Carried, Loaded, Staged, OfKind
  <2> HIDE DEF next
  <2> QED BY <2>1, <2>2
<1>3. CASE ~(it.kind = "vehicle" /\ TouchesRoom(it.cmd))
  <2>1. Goes(d, done)
    BY <1>3 DEF Proceed
  <2>2. WellFormed(done) /\ Carried(done) = events /\ done.pc = "settled"
    BY <1>1 DEF WellFormed, Carried, Loaded, Staged
  <2> HIDE DEF done
  <2> QED BY <2>1, <2>2
<1> QED BY <1>2, <1>3

LEMMA ReadEventsKept ==
  ASSUME Inv, NEW d \in Dispatches, ReadEvents(d)
  PROVE  Inv'
<1> DEFINE it == dispatches[d]
           a == it.aggregate
           state == Replayed(it.state, Delta(a, it.sequence))
           staged == Decided(it.kind, it.cmd, state)
<1>0. Types /\ SequencesDense /\ Accounted /\ Alone
  BY DEF Inv
<1>1. /\ it.pc = "events"
      /\ IF staged = <<>> THEN Proceed(d, it.events)
         ELSE Goes(d, [it EXCEPT !.pc = "append", !.sequence = Reached(a, it.sequence), !.state = state,
                                 !.events = [staged |-> staged, earlier |-> it.events]])
      /\ UNCHANGED <<workload, log, snapshots, writing, published, rejected>>
  BY DEF ReadEvents, Reached
<1>2. /\ it.cmd \in Commands /\ OfKind(it) /\ it.events \subseteq LooseOf(it.cmd)
      /\ it.sequence \in Nat
      /\ DOMAIN it = {"pc", "cmd", "kind", "aggregate", "events", "sequence", "state"}
  BY <1>0, <1>1 DEF Types, WellFormed, Loaded
<1>3. a \in Aggregates /\ workload \in Workloads
  BY <1>0, <1>2, CommandTyped DEF Types, OfKind
<1>4. /\ staged \in Seq(Recorded)
      /\ \A n \in 1 .. Len(staged) :
               /\ OfCommand(staged[n], a, it.cmd)
               /\ it.kind = "vehicle" /\ TouchesRoom(it.cmd) => staged[n].type \in Membership
  BY <1>2, <1>3, DecidedTyped DEF OfKind
<1> HIDE DEF state, staged
<1>5. CASE staged = <<>>
  <2>1. PICK to : /\ Goes(d, to) /\ WellFormed(to) /\ Carried(to) = it.events
                  /\ to.pc \in {"snapshot", "settled"}
    <3>1. dispatches[d].pc \in Loaded /\ Proceed(d, it.events)
      BY <1>1, <1>5 DEF Loaded
    <3> QED BY <1>0, <1>2, <3>1, ProceedTo
  <2>2. Carried(dispatches[d]) \subseteq Carried(to)
    BY <1>1, <2>1 DEF Carried
  <2>3. to.pc \notin Staged /\ to.pc # "events"
    BY <2>1 DEF Staged
  <2> QED BY <1>1, <2>1, <2>2, <2>3, QuietKept
<1>6. CASE staged # <<>>
  <2> DEFINE reached == Reached(a, it.sequence)
             to == [it EXCEPT !.pc = "append", !.sequence = reached, !.state = state,
                              !.events = [staged |-> staged, earlier |-> it.events]]
  <2>1. Goes(d, to)
    BY <1>1, <1>6
  <2>2. reached \in Nat
    BY <1>0, <1>2, <1>3, ReachedTyped
  <2>3. Cardinality(Dispatches) = 1 => reached = Len(log[a])
    <3>1. SUFFICES ASSUME Cardinality(Dispatches) = 1 PROVE reached = Len(log[a])
      OBVIOUS
    <3>2. it.sequence <= Len(log[a]) /\ Len(log[a]) <= MaxEvents
      BY <1>0, <1>1, <1>3, <3>1 DEF Alone, StoreCurrent, HandlersCurrent
    <3>3. \A n \in 1 .. Len(log[a]) : log[a][n].sequence = n
      BY <1>0, <1>3, <3>1 DEF SequencesDense, Guarded
    <3>4. MaxEvents \in Nat
      BY <1>0, Sizes
    <3> QED BY <1>0, <1>2, <1>3, <3>2, <3>3, <3>4, ReachedEnd
  <2> HIDE DEF reached, it
  <2>4. /\ to.pc = "append" /\ to.cmd = it.cmd /\ to.aggregate = it.aggregate /\ to.sequence = reached
        /\ to.events = [staged |-> staged, earlier |-> it.events] /\ to.kind = it.kind
        /\ DOMAIN to = {"pc", "cmd", "kind", "aggregate", "events", "sequence", "state"}
    BY <1>2
  <2>5. to.events.staged = staged /\ to.events.earlier = it.events
    BY <2>4
  <2> HIDE DEF to
  <2>6. WellFormed(to)
    BY <1>2, <1>4, <2>2, <2>4, <2>5 DEF WellFormed, Loaded, Staged, OfKind
  <2>7. Carried(it) \subseteq Carried(to)
    BY <1>1, <2>4, <2>5 DEF Carried, Staged
  <2>8. Carried(dispatches[d]) \subseteq Carried(to)
    BY <2>7 DEF it
  <2>9. Cardinality(Dispatches) = 1 => /\ to.pc = "events" => to.sequence <= Len(log[to.aggregate])
                                       /\ to.pc \in Staged => to.sequence = Len(log[to.aggregate])
    BY <2>3, <2>4
  <2> QED BY <1>1, <2>1, <2>6, <2>8, <2>9, QuietKept
<1> QED BY <1>5, <1>6

\* What append() is given.
LEMMA StagedFacts ==
  ASSUME Inv, NEW d \in Dispatches, dispatches[d].pc \in Staged
  PROVE  LET it == dispatches[d]
         IN  /\ it.cmd \in Commands /\ OfKind(it)
             /\ it.aggregate \in Aggregates /\ it.sequence \in Nat
             /\ DOMAIN it = {"pc", "cmd", "kind", "aggregate", "events", "sequence", "state"}
             /\ it.events.earlier \subseteq LooseOf(it.cmd) /\ it.events.staged \in Seq(Recorded)
             /\ \A n \in 1 .. Len(it.events.staged) :
                   /\ OfCommand(it.events.staged[n], it.aggregate, it.cmd)
                   /\ it.kind = "vehicle" /\ TouchesRoom(it.cmd) =>
                         it.events.staged[n].type \in Membership
             /\ Carried(it) = it.events.earlier
             /\ Cardinality(Dispatches) = 1 => it.sequence = Len(log[it.aggregate])
<1> DEFINE it == dispatches[d]
<1>1. WellFormed(it) /\ workload \in Workloads
  BY DEF Inv, Types
<1>2. Cardinality(Dispatches) = 1 => it.sequence = Len(log[it.aggregate])
  BY DEF Inv, Alone, HandlersCurrent
<1> HIDE DEF it
<1>3. it.pc \in Staged
  BY DEF it
<1>4. /\ it.cmd \in Commands /\ OfKind(it) /\ it.sequence \in Nat
      /\ DOMAIN it = {"pc", "cmd", "kind", "aggregate", "events", "sequence", "state"}
      /\ it.events.earlier \subseteq LooseOf(it.cmd) /\ it.events.staged \in Seq(Recorded)
      /\ \A n \in 1 .. Len(it.events.staged) :
            /\ OfCommand(it.events.staged[n], it.aggregate, it.cmd)
            /\ it.kind = "vehicle" /\ TouchesRoom(it.cmd) =>
                  it.events.staged[n].type \in Membership
  BY <1>1, <1>3 DEF WellFormed, Loaded, Staged
<1>5. it.aggregate \in Aggregates
  BY <1>1, <1>4, CommandTyped DEF OfKind
<1>6. Carried(it) = it.events.earlier
  BY <1>3 DEF Carried, Staged
<1> QED BY <1>2, <1>4, <1>5, <1>6 DEF it

\* A rejected command: nothing changes but what it may leave behind.
LEMMA RejectKept ==
  ASSUME Inv, NEW d \in Dispatches, dispatches[d].pc \in {"snapshot", "events"} \cup Staged, Reject(d),
         Transactional \/ Cardinality(Dispatches) # 1
  PROVE  Inv'
<1> DEFINE it == dispatches[d]
<1>1. /\ Goes(d, Idle) /\ UNCHANGED <<workload, log, snapshots, writing, published>>
      /\ rejected' = IF Earlier(it) = {} THEN rejected ELSE rejected \cup {it.cmd.id}
  BY DEF Reject, Rejected
<1>2. WellFormed(Idle) /\ Idle.pc = "idle"
  BY DEF WellFormed, Idle, Loaded, Staged
<1>3. Carried(it) = Earlier(it) /\ Carried(it) \subseteq LooseOf(it.cmd)
  <2>1. WellFormed(it)
    BY DEF Inv, Types
  <2>2. CASE it.pc \in {"snapshot", "events"}
    BY <2>1, <2>2 DEF WellFormed, Carried, Earlier
  <2>3. CASE it.pc \in Staged
    BY <2>1, <2>3 DEF WellFormed, Carried, Earlier, Staged
  <2> QED BY <2>2, <2>3
<1>4. rejected \subseteq rejected' /\ \A e \in Carried(it) : LeftBy(e, rejected')
  BY <1>1, <1>3 DEF LeftBy, LooseOf
<1>5. Idle.pc \notin Staged /\ Idle.pc # "events"
  BY <1>2 DEF Staged
<1> DEFINE to == Idle
<1> HIDE DEF to
<1>6. Goes(d, to) /\ WellFormed(to) /\ to.pc \notin Staged /\ to.pc # "events"
  BY <1>1, <1>2, <1>5 DEF to
<1> QED BY <1>1, <1>4, <1>6, QuietKept

\* A handler that runs alone meets no conflict.
LEMMA ConflictKept ==
  ASSUME Inv, NEW d \in Dispatches, dispatches[d].pc \in Staged, Reject(d),
         Conflicts(dispatches[d].aggregate, dispatches[d].sequence)
  PROVE  Inv'
<1> DEFINE it == dispatches[d]
<1>3. /\ it.aggregate \in Aggregates
      /\ Cardinality(Dispatches) = 1 => it.sequence = Len(log[it.aggregate])
  BY StagedFacts
<1>4. Cardinality(Dispatches) # 1
  <2>1. SUFFICES ASSUME Cardinality(Dispatches) = 1 PROVE FALSE
    OBVIOUS
  <2>2. \A n \in 1 .. Len(log[it.aggregate]) : log[it.aggregate][n].sequence = n
    BY <1>3, <2>1 DEF Inv, SequencesDense, Guarded
  <2>3. HighestSequence(it.aggregate) = Len(log[it.aggregate])
    BY <1>3, <2>2, HighestIsLength DEF Inv
  <2> QED BY <1>3, <2>1, <2>3 DEF Conflicts
<1> QED BY <1>4, RejectKept

\* What append() stores, and the snapshot of the aggregate after it.
Batch(d) == Numbered(dispatches[d].events.staged, dispatches[d].sequence)
Taken(d) == [kind |-> dispatches[d].kind, sequence |-> dispatches[d].sequence + Len(Batch(d)),
             state |-> Replayed(dispatches[d].state, Batch(d))]

LEMMA BatchFacts ==
  ASSUME Inv, NEW d \in Dispatches, dispatches[d].pc \in Staged
  PROVE  LET it == dispatches[d]
         IN  /\ ToSet(Batch(d)) \subseteq Recorded
             /\ \A e \in ToSet(Batch(d)) :
                   /\ e.aggregate = it.aggregate /\ e.cause = it.cmd.id /\ e.client = it.cmd.client
                   /\ it.kind = "vehicle" /\ TouchesRoom(it.cmd) => e.type \in Membership
             /\ ToSet(Batch(d)) # {} => ToSet(it.events.staged) # {}
<1> DEFINE it == dispatches[d]
           staged == it.events.staged
           batch == Batch(d)
<1>1. /\ it.sequence \in Nat /\ staged \in Seq(Recorded) /\ workload \in Workloads
      /\ \A n \in 1 .. Len(staged) :
            /\ OfCommand(staged[n], it.aggregate, it.cmd)
            /\ it.kind = "vehicle" /\ TouchesRoom(it.cmd) => staged[n].type \in Membership
  BY StagedFacts DEF Inv, Types
<1>2. /\ batch \in Seq(Recorded) /\ Len(batch) = Len(staged) /\ Len(staged) \in Nat
      /\ \A n \in 1 .. Len(staged) : /\ batch[n].aggregate = staged[n].aggregate
                                      /\ batch[n].cause = staged[n].cause
                                      /\ batch[n].client = staged[n].client
                                      /\ batch[n].type = staged[n].type
  <2> HIDE DEF it, staged
  <2>1. batch = Numbered(staged, it.sequence)
    BY DEF Batch, it, staged
  <2> HIDE DEF batch
  <2> QED BY <1>1, <2>1, NumberedTyped
<1> HIDE DEF it, staged, batch
<1>3. DOMAIN batch = 1 .. Len(batch) /\ \A n \in 1 .. Len(batch) : batch[n] \in Recorded
  BY <1>2, LenProperties, ElementOfSeq
<1>4. DOMAIN staged = 1 .. Len(staged)
  BY <1>1, LenProperties
<1>5. \A e \in ToSet(batch) : \E n \in 1 .. Len(staged) : e = batch[n]
  BY <1>2, <1>3 DEF ToSet
<1>6. \A n \in 1 .. Len(staged) : staged[n] \in ToSet(staged)
  BY <1>4 DEF ToSet
<1>7. \A e \in ToSet(batch) :
         /\ e.aggregate = it.aggregate /\ e.cause = it.cmd.id /\ e.client = it.cmd.client
         /\ it.kind = "vehicle" /\ TouchesRoom(it.cmd) => e.type \in Membership
  BY <1>1, <1>2, <1>5 DEF OfCommand
<1>8. ToSet(batch) \subseteq Recorded /\ (ToSet(batch) # {} => ToSet(staged) # {})
  BY <1>2, <1>3, <1>5, <1>6
<1> QED BY <1>7, <1>8 DEF it, staged, batch

\* The store takes the events of a handler whose number is the length of the log, where
\* the numbers are dense.
LEMMA StoredKept ==
  ASSUME Inv, NEW d \in Dispatches, dispatches[d].pc \in Staged, Stored(d),
         UNCHANGED <<workload, snapshots, published>>, rejected \subseteq rejected',
         \/ writing' = writing
         \/ writing' = [writing EXCEPT ![dispatches[d].aggregate] = @ \cup {Taken(d)}],
         NEW to, Goes(d, to), WellFormed(to), to.pc \notin Staged, to.pc # "events",
         \/ Carried(to) = Carried(dispatches[d]) \cup ToSet(Batch(d))
         \/ /\ Transactional
            /\ \A e \in Carried(dispatches[d]) \cup ToSet(Batch(d)) : LeftBy(e, rejected'),
         ~Transactional \/ Cardinality(Dispatches) = 1 =>
            dispatches[d].sequence = Len(log[dispatches[d].aggregate])
  PROVE  Inv'
<1>0. Types /\ SequencesDense /\ Accounted /\ Alone
  BY DEF Inv
<1> DEFINE it == dispatches[d]
           a == it.aggregate
           batch == Batch(d)
           sequence == it.sequence + Len(batch)
           taken == Taken(d)
           new == log[a] \o batch
<1>1. /\ it.cmd \in Commands /\ a \in Aggregates /\ it.sequence \in Nat
      /\ it.events.staged \in Seq(Recorded)
  BY StagedFacts
<1>2. /\ Len(log[a]) + Len(batch) <= MaxEvents
      /\ log' = [log EXCEPT ![a] = new]
      /\ writing' = writing \/ writing' = [writing EXCEPT ![a] = @ \cup {taken}]
      /\ UNCHANGED <<workload, snapshots, published>>
  BY DEF Stored, Batch
<1>3. workload \in Workloads /\ log \in [Aggregates -> Seq(Recorded)]
  BY <1>0 DEF Types
<1>4. /\ batch \in Seq(Recorded) /\ Len(batch) = Len(it.events.staged) /\ Len(batch) \in Nat
      /\ \A n \in 1 .. Len(it.events.staged) :
            /\ batch[n].sequence = it.sequence + n
            /\ batch[n].aggregate = it.events.staged[n].aggregate
            /\ batch[n].type = it.events.staged[n].type
  BY <1>1, <1>3, NumberedTyped DEF Batch
<1>5. taken.sequence = sequence
  BY DEF Taken
<1>9. \/ Carried(to) = Carried(it) \cup ToSet(batch)
      \/ /\ Transactional
         /\ \A e \in Carried(it) \cup ToSet(batch) : LeftBy(e, rejected')
  OBVIOUS
<1> HIDE DEF batch, taken, it
<1>6. /\ DOMAIN batch = 1 .. Len(batch) /\ \A n \in 1 .. Len(batch) : batch[n] \in Recorded
  BY <1>4, LenProperties, ElementOfSeq
<1>7. \A e : e \in ToSet(batch) <=> \E n \in 1 .. Len(batch) : e = batch[n]
  BY <1>6 DEF ToSet
<1>10. /\ DOMAIN dispatches' = Dispatches /\ dispatches'[d] = to
       /\ \A x \in Dispatches : x # d => dispatches'[x] = dispatches[x]
       /\ \A x \in Dispatches : WellFormed(dispatches'[x])
  BY <1>0, Moved
<1>11. log[a] \in Seq(Recorded) /\ Len(log[a]) \in Nat
  BY <1>0, <1>1, Sizes
<1>12. /\ new \in Seq(Recorded) /\ Len(new) = Len(log[a]) + Len(batch)
       /\ \A n \in 1 .. Len(new) : \/ n \in 1 .. Len(log[a]) /\ new[n] = log[a][n]
                                   \/ /\ n - Len(log[a]) \in 1 .. Len(batch)
                                      /\ new[n] = batch[n - Len(log[a])]
  BY <1>4, <1>11, Joined
<1> HIDE DEF new
<1>13. /\ log' \in [Aggregates -> Seq(Recorded)] /\ log'[a] = new
       /\ \A b \in Aggregates : b # a => log'[b] = log[b]
  BY <1>1, <1>2, <1>3, <1>12
<1>14. sequence \in Nat
  BY <1>1, <1>4
<1>15. /\ DOMAIN writing' = Aggregates
       /\ \A b \in Aggregates : \A snap \in writing'[b] : snap \in writing[b] \/ (b = a /\ snap = taken)
  <2>1. DOMAIN writing = Aggregates
    BY <1>0 DEF Types
  <2>2. CASE writing' = writing
    BY <2>1, <2>2
  <2>3. CASE writing' = [writing EXCEPT ![a] = @ \cup {taken}]
    BY <1>1, <2>1, <2>3
  <2> QED BY <1>2, <2>2, <2>3
<1>16. \A b \in Aggregates : \A snap \in writing'[b] : snap.sequence \in Nat
  BY <1>0, <1>5, <1>14, <1>15 DEF Types
<1> HIDE DEF sequence
<1>17. Types'
  BY <1>0, <1>2, <1>3, <1>10, <1>13, <1>15, <1>16, TypesAfter DEF Types
<1>18. SequencesDense'
  <2>1. ASSUME ~Transactional \/ Cardinality(Dispatches) = 1,
               NEW b \in Aggregates, NEW n \in 1 .. Len(log'[b])
        PROVE  log'[b][n].sequence = n
    <3>1. \A m \in 1 .. Len(log[b]) : log[b][m].sequence = m
      BY <1>0, <2>1 DEF SequencesDense, Guarded
    <3>2. CASE b # a
      BY <1>13, <3>1, <3>2
    <3>3. CASE b = a /\ n \in 1 .. Len(log[a]) /\ new[n] = log[a][n]
      BY <1>13, <3>1, <3>3
    <3>4. CASE b = a /\ n - Len(log[a]) \in 1 .. Len(batch) /\ new[n] = batch[n - Len(log[a])]
      <4>1. it.sequence = Len(log[a])
        BY <2>1 DEF it
      <4>2. n \in Nat /\ batch[n - Len(log[a])].sequence = it.sequence + (n - Len(log[a]))
        BY <1>4, <2>1, <3>4
      <4> QED BY <1>11, <1>13, <3>4, <4>1, <4>2
    <3> QED BY <1>12, <1>13, <3>2, <3>3, <3>4
  <2> QED BY <1>2, <2>1, DenseAfter
<1>19. ASSUME NEW e, Known(e)
       PROVE  \/ e \in published' \/ \E x \in Dispatches : e \in Carried(dispatches'[x])
              \/ Transactional /\ LeftBy(e, rejected')
  <2>1. CASE e \in published
    BY <1>2, <2>1
  <2>2. ASSUME NEW x \in Dispatches, e \in Carried(dispatches[x])
        PROVE  \/ \E y \in Dispatches : e \in Carried(dispatches'[y])
               \/ Transactional /\ LeftBy(e, rejected')
    <3>1. CASE x = d
      <4>1. e \in Carried(to) \/ (Transactional /\ LeftBy(e, rejected'))
        BY <1>9, <2>2, <3>1 DEF it
      <4> QED BY <1>10, <4>1
    <3>2. CASE x # d
      <4>1. dispatches'[x] = dispatches[x]
        BY <1>10, <3>2
      <4>2. e \in Carried(dispatches'[x])
        BY <2>2, <4>1
      <4> QED BY <4>2
    <3> QED BY <3>1, <3>2
  <2> QED BY <1>19, <2>1, <2>2 DEF Known
<1>20. ASSUME NEW b \in Aggregates, NEW n \in 1 .. Len(log'[b])
       PROVE  \/ n \in 1 .. Len(log[b]) /\ log'[b][n] = log[b][n]
              \/ \E x \in Dispatches : log'[b][n] \in Carried(dispatches'[x])
              \/ Transactional /\ LeftBy(log'[b][n], rejected')
  <2>1. CASE b # a
    BY <1>13, <2>1
  <2>2. CASE b = a /\ n \in 1 .. Len(log[a]) /\ new[n] = log[a][n]
    BY <1>13, <2>2
  <2>3. CASE b = a /\ n - Len(log[a]) \in 1 .. Len(batch) /\ new[n] = batch[n - Len(log[a])]
    <3>1. log'[b][n] \in ToSet(batch)
      BY <1>7, <1>13, <2>3
    <3>2. log'[b][n] \in Carried(dispatches'[d]) \/ (Transactional /\ LeftBy(log'[b][n], rejected'))
      BY <1>9, <1>10, <3>1
    <3> QED BY <3>2
  <2> QED BY <1>12, <1>13, <2>1, <2>2, <2>3
<1>21. Accounted'
  <2>1. ASSUME NEW b \in Aggregates, NEW n \in 1 .. Len(log'[b])
        PROVE  \/ LeftBy(log'[b][n], rejected') \/ log'[b][n] \in published'
               \/ \E x \in Dispatches : log'[b][n] \in Carried(dispatches'[x])
    <3>1. CASE n \in 1 .. Len(log[b]) /\ log'[b][n] = log[b][n]
      <4>1. LeftBy(log'[b][n], rejected) \/ Known(log'[b][n])
        BY <1>0, <3>1 DEF Accounted
      <4>2. CASE LeftBy(log'[b][n], rejected)
        BY <4>2 DEF LeftBy
      <4>3. CASE Known(log'[b][n])
        BY <1>19, <4>3
      <4> QED BY <4>1, <4>2, <4>3
    <3> QED BY <1>20, <3>1
  <2> QED BY <1>2, <2>1, AccountedAfter
<1>22. Alone'
  <2>1. ASSUME Cardinality(Dispatches) = 1
        PROVE  /\ \A b \in Aggregates : /\ Len(log'[b]) <= MaxEvents
                                        /\ snapshots'[b].sequence <= Len(log'[b])
                                        /\ \A snap \in writing'[b] : snap.sequence <= Len(log'[b])
               /\ \A x \in Dispatches :
                     /\ dispatches'[x].pc = "events" =>
                           dispatches'[x].sequence <= Len(log'[dispatches'[x].aggregate])
                     /\ dispatches'[x].pc \in Staged =>
                           dispatches'[x].sequence = Len(log'[dispatches'[x].aggregate])
               /\ ~Transactional => \A b \in Aggregates : \A n \in 1 .. Len(log'[b]) :
                     \/ log'[b][n] \in published'
                     \/ \E x \in Dispatches : log'[b][n] \in Carried(dispatches'[x])
    <3>1. StoreCurrent /\ (~Transactional => AllKnown)
      BY <1>0, <2>1 DEF Alone
    <3>2. \A x \in Dispatches : dispatches'[x].pc \notin Staged /\ dispatches'[x].pc # "events"
      <4>1. \A x \in Dispatches : dispatches'[x] = to
        BY <1>0, <1>10, <2>1, OnlyDispatch
      <4> QED BY <4>1
    <3>3. \A b \in Aggregates : Len(log[b]) \in Nat /\ Len(log[b]) <= Len(log'[b]) /\ Len(log'[b]) <= MaxEvents
                                /\ Len(log'[b]) \in Nat
      <4>1. \A b \in Aggregates : Len(log[b]) \in Nat /\ Len(log[b]) <= MaxEvents
        BY <1>0, <3>1, Sizes DEF StoreCurrent
      <4>2. \A b \in Aggregates : b # a => log'[b] = log[b]
        BY <1>13
      <4>3. Len(log'[a]) = Len(log[a]) + Len(batch)
        BY <1>12, <1>13
      <4>4. /\ Len(log[a]) <= Len(log'[a]) /\ Len(log'[a]) <= MaxEvents /\ Len(log'[a]) \in Nat
        <5>1. Len(log[a]) + Len(batch) <= MaxEvents
          BY <1>2
        <5>2. MaxEvents \in Nat
          BY <1>0, Sizes
        <5> DEFINE l == Len(log[a])
                   k == Len(batch)
                   l2 == Len(log'[a])
        <5>3. l \in Nat /\ k \in Nat /\ l2 = l + k /\ l + k <= MaxEvents /\ MaxEvents \in Nat
          BY <1>4, <1>11, <4>3, <5>1, <5>2
        <5> HIDE DEF l, k, l2
        <5>4. l <= l2 /\ l2 <= MaxEvents /\ l2 \in Nat
          BY <5>3
        <5> QED BY <5>4 DEF l, l2
      <4>5. ASSUME NEW b \in Aggregates
            PROVE  Len(log[b]) \in Nat /\ Len(log[b]) <= Len(log'[b]) /\ Len(log'[b]) <= MaxEvents
                   /\ Len(log'[b]) \in Nat
        <5>1. CASE b = a
          BY <1>11, <4>4, <5>1
        <5>2. CASE b # a
          BY <4>1, <4>2, <5>2
        <5> QED BY <5>1, <5>2
      <4> QED BY <4>5
    <3>4. taken.sequence = Len(log'[a])
      BY <1>5, <1>12, <1>13, <2>1 DEF sequence, it
    <3>5. ASSUME NEW b \in Aggregates
          PROVE  /\ Len(log'[b]) <= MaxEvents
                 /\ snapshots'[b].sequence <= Len(log'[b])
                 /\ \A snap \in writing'[b] : snap.sequence <= Len(log'[b])
      <4>1. /\ snapshots[b].sequence \in Nat /\ snapshots[b].sequence <= Len(log[b])
            /\ \A snap \in writing[b] : snap.sequence \in Nat /\ snap.sequence <= Len(log[b])
        BY <1>0, <3>1 DEF Types, StoreCurrent
      <4>2. snapshots'[b].sequence <= Len(log'[b])
        BY <1>2, <3>3, <4>1
      <4>3. ASSUME NEW snap \in writing'[b] PROVE snap.sequence <= Len(log'[b])
        BY <1>15, <3>3, <3>4, <4>1
      <4> QED BY <3>3, <4>2, <4>3
    <3>6. ASSUME ~Transactional, NEW b \in Aggregates, NEW n \in 1 .. Len(log'[b])
          PROVE  \/ log'[b][n] \in published'
                 \/ \E x \in Dispatches : log'[b][n] \in Carried(dispatches'[x])
      <4>1. CASE n \in 1 .. Len(log[b]) /\ log'[b][n] = log[b][n]
        <5>1. Known(log'[b][n])
          BY <3>1, <3>6, <4>1 DEF AllKnown
        <5> QED BY <1>19, <3>6, <5>1
      <4> QED BY <1>20, <3>6, <4>1
    <3> QED BY <3>2, <3>5, <3>6
  <2> QED BY <1>2, <2>1, AloneAfter
<1> QED BY <1>17, <1>18, <1>21, <1>22 DEF Inv

\* append() returns.
LEMMA CommitKept ==
  ASSUME Inv, NEW d \in Dispatches, dispatches[d].pc \in Staged, Commit(d),
         ~Transactional \/ Cardinality(Dispatches) = 1 =>
            dispatches[d].sequence = Len(log[dispatches[d].aggregate])
  PROVE  Inv'
<1> DEFINE it == dispatches[d]
           carried == it.events.earlier \cup ToSet(Batch(d))
<1>1. /\ Stored(d) /\ Proceed(d, carried)
      /\ UNCHANGED <<workload, snapshots, published>> /\ rejected' = rejected
      /\ writing' = writing \/ writing' = [writing EXCEPT ![it.aggregate] = @ \cup {Taken(d)}]
  BY DEF Commit, Batch, Taken
<1>2. Carried(it) = it.events.earlier /\ it.events.earlier \subseteq LooseOf(it.cmd)
  BY StagedFacts
<1>3. it.kind = "vehicle" /\ TouchesRoom(it.cmd) => ToSet(Batch(d)) \subseteq LooseOf(it.cmd)
  BY BatchFacts, StagedFacts DEF LooseOf, Loose, OfKind, OfCommand
<1>4. it.kind = "vehicle" /\ TouchesRoom(it.cmd) => carried \subseteq LooseOf(it.cmd)
  BY <1>2, <1>3
<1>5. it.pc \in Loaded /\ Types
  BY DEF Staged, Loaded, Inv
<1> HIDE DEF carried
<1>6. PICK to : /\ Goes(d, to) /\ WellFormed(to) /\ Carried(to) = carried
                /\ to.pc \in {"snapshot", "settled"}
  BY <1>1, <1>4, <1>5, ProceedTo
<1>7. to.pc \notin Staged /\ to.pc # "events" /\ Carried(to) = Carried(dispatches[d]) \cup ToSet(Batch(d))
  BY <1>2, <1>6 DEF Staged, carried
<1> QED BY <1>1, <1>6, <1>7, StoredKept

\* The SQL store has the events and its answer is lost.
LEMMA UnansweredKept ==
  ASSUME Inv, NEW d \in Dispatches, CommitUnanswered(d)
  PROVE  Inv'
<1> DEFINE it == dispatches[d]
           stored == Earlier(it) \cup ToSet(it.events.staged)
<1>1. /\ it.pc = "insert" /\ Stored(d) /\ Goes(d, Idle)
      /\ UNCHANGED <<workload, snapshots, writing, published>>
      /\ rejected' = IF stored = {} THEN rejected ELSE rejected \cup {it.cmd.id}
  BY DEF CommitUnanswered, Rejected
<1>2. it.pc \in Staged /\ dispatches[d].pc \in Staged
  BY <1>1 DEF Staged
<1>3. Transactional
  BY <1>1 DEF Inv, Types, WellFormed
<1>4. /\ Carried(it) = it.events.earlier /\ it.events.earlier \subseteq LooseOf(it.cmd)
      /\ Cardinality(Dispatches) = 1 => it.sequence = Len(log[it.aggregate])
  BY <1>2, StagedFacts
<1>5. /\ \A e \in ToSet(Batch(d)) : e.cause = it.cmd.id
      /\ ToSet(Batch(d)) # {} => ToSet(it.events.staged) # {}
  BY <1>2, BatchFacts
<1>6. Earlier(it) = it.events.earlier
  BY <1>1 DEF Earlier
<1>7. rejected \subseteq rejected' /\ \A e \in Carried(it) \cup ToSet(Batch(d)) : LeftBy(e, rejected')
  BY <1>1, <1>3, <1>4, <1>5, <1>6 DEF LeftBy, LooseOf
<1>8. WellFormed(Idle) /\ Idle.pc \notin Staged /\ Idle.pc # "events"
  BY DEF WellFormed, Idle, Loaded, Staged
<1> DEFINE to == Idle
<1>9. Goes(d, to) /\ WellFormed(to) /\ to.pc \notin Staged /\ to.pc # "events"
  BY <1>1, <1>8
<1> HIDE DEF to
<1> QED BY <1>1, <1>2, <1>3, <1>4, <1>7, <1>9, StoredKept

LEMMA AppendKept ==
  ASSUME Inv, NEW d \in Dispatches, Append1(d) \/ CheckSequence(d) \/ Insert(d)
  PROVE  Inv'
<1> DEFINE it == dispatches[d]
<1>1. it.pc \in Staged
  BY DEF Append1, CheckSequence, Insert, Staged
<1>2. /\ it.cmd \in Commands /\ OfKind(it)
      /\ it.aggregate \in Aggregates /\ it.sequence \in Nat
      /\ DOMAIN it = {"pc", "cmd", "kind", "aggregate", "events", "sequence", "state"}
      /\ it.events.earlier \subseteq LooseOf(it.cmd) /\ it.events.staged \in Seq(Recorded)
      /\ \A n \in 1 .. Len(it.events.staged) :
            /\ OfCommand(it.events.staged[n], it.aggregate, it.cmd)
            /\ it.kind = "vehicle" /\ TouchesRoom(it.cmd) => it.events.staged[n].type \in Membership
      /\ Carried(it) = it.events.earlier
      /\ Cardinality(Dispatches) = 1 => it.sequence = Len(log[it.aggregate])
  BY <1>1, StagedFacts
<1>3. CASE Append1(d)
  <2>1. CASE Conflicts(it.aggregate, it.sequence)
    <3>1. Reject(d)
      BY <1>3, <2>1 DEF Append1
    <3> QED BY <1>1, <2>1, <3>1, ConflictKept
  <2>2. CASE ~Conflicts(it.aggregate, it.sequence)
    <3>1. Commit(d) /\ ~Transactional
      BY <1>3, <2>2 DEF Append1
    <3>2. \A n \in 1 .. Len(log[it.aggregate]) : log[it.aggregate][n].sequence = n
      BY <1>2, <3>1 DEF Inv, SequencesDense, Guarded
    <3>3. it.sequence = Len(log[it.aggregate])
      <4>1. HighestSequence(it.aggregate) = Len(log[it.aggregate])
        BY <1>2, <3>2, HighestIsLength DEF Inv
      <4> QED BY <2>2, <4>1 DEF Conflicts
    <3> QED BY <1>1, <3>1, <3>3, CommitKept
  <2> QED BY <2>1, <2>2
<1>4. CASE CheckSequence(d)
  <2>1. CASE Conflicts(it.aggregate, it.sequence)
    <3>1. Reject(d)
      BY <1>4, <2>1 DEF CheckSequence
    <3> QED BY <1>1, <2>1, <3>1, ConflictKept
  <2>2. CASE ~Conflicts(it.aggregate, it.sequence)
    <3> DEFINE to == [it EXCEPT !.pc = "insert"]
    <3>1. Goes(d, to) /\ Transactional /\ UNCHANGED <<workload, log, snapshots, writing, published, rejected>>
      BY <1>4, <2>2 DEF CheckSequence
    <3> HIDE DEF it
    <3>2. /\ to.pc = "insert" /\ to.cmd = it.cmd /\ to.aggregate = it.aggregate
          /\ to.events = it.events /\ to.sequence = it.sequence /\ to.kind = it.kind
          /\ DOMAIN to = {"pc", "cmd", "kind", "aggregate", "events", "sequence", "state"}
      BY <1>2
    <3> HIDE DEF to
    <3>3. WellFormed(to)
      BY <1>2, <3>1, <3>2 DEF WellFormed, Loaded, Staged, OfKind
    <3>4. Carried(to) = it.events.earlier
      BY <3>2 DEF Carried, Staged
    <3>5. Carried(dispatches[d]) \subseteq Carried(to)
      BY <1>2, <3>4 DEF it
    <3>6. Cardinality(Dispatches) = 1 => /\ to.pc = "events" => to.sequence <= Len(log[to.aggregate])
                                         /\ to.pc \in Staged => to.sequence = Len(log[to.aggregate])
      BY <1>2, <3>2
    <3> QED BY <3>1, <3>3, <3>5, <3>6, QuietKept
  <2> QED BY <2>1, <2>2
<1>5. CASE Insert(d)
  <2>1. Commit(d) /\ it.pc = "insert"
    BY <1>5 DEF Insert
  <2>2. Transactional
    BY <2>1 DEF Inv, Types, WellFormed
  <2> QED BY <1>1, <1>2, <2>1, <2>2, CommitKept
<1> QED BY <1>3, <1>4, <1>5

LEMMA StatementFailsKept ==
  ASSUME Inv, NEW d \in Dispatches, StatementFails(d)
  PROVE  Inv'
BY RejectKept DEF StatementFails, Staged

LEMMA FinishKept ==
  ASSUME Inv, NEW d \in Dispatches, Finish(d)
  PROVE  Inv'
<1>0. Types /\ SequencesDense /\ Accounted /\ Alone
  BY DEF Inv
<1>1. /\ dispatches[d].pc = "settled" /\ Goes(d, Idle)
      /\ published' = published \cup dispatches[d].events
      /\ UNCHANGED <<workload, log, snapshots, writing, rejected>>
  BY DEF Finish
<1>2. WellFormed(Idle) /\ Idle.pc = "idle"
  BY DEF WellFormed, Idle, Loaded, Staged
<1> DEFINE to == Idle
<1>a. Goes(d, to) /\ WellFormed(to) /\ to.pc = "idle"
  BY <1>1, <1>2
<1> HIDE DEF to
<1>3. /\ DOMAIN dispatches' = Dispatches /\ dispatches'[d] = to
      /\ \A x \in Dispatches : x # d => dispatches'[x] = dispatches[x]
      /\ \A x \in Dispatches : WellFormed(dispatches'[x])
  BY <1>0, <1>a, Moved
<1>4. Types'
  BY <1>0, <1>1, <1>3, TypesAfter DEF Types
<1>5. SequencesDense'
  BY <1>0, <1>1, DenseAfter DEF SequencesDense, Guarded
<1>6. ASSUME NEW e, Known(e)
      PROVE  e \in published' \/ \E x \in Dispatches : e \in Carried(dispatches'[x])
  <2>1. CASE e \in published
    BY <1>1, <2>1
  <2>2. ASSUME NEW x \in Dispatches, e \in Carried(dispatches[x])
        PROVE  e \in published' \/ \E y \in Dispatches : e \in Carried(dispatches'[y])
    <3>1. CASE x = d
      BY <1>1, <2>2, <3>1 DEF Carried
    <3>2. CASE x # d
      <4>1. dispatches'[x] = dispatches[x]
        BY <1>3, <3>2
      <4>2. e \in Carried(dispatches'[x])
        BY <2>2, <4>1
      <4> QED BY <4>2
    <3> QED BY <3>1, <3>2
  <2> QED BY <1>6, <2>1, <2>2 DEF Known
<1>7. Accounted'
  <2>1. ASSUME NEW a \in Aggregates, NEW n \in 1 .. Len(log'[a])
        PROVE  \/ LeftBy(log'[a][n], rejected') \/ log'[a][n] \in published'
               \/ \E x \in Dispatches : log'[a][n] \in Carried(dispatches'[x])
    <3>1. LeftBy(log'[a][n], rejected') \/ Known(log'[a][n])
      BY <1>0, <1>1 DEF Accounted
    <3> QED BY <1>6, <3>1
  <2> QED BY <1>1, <2>1, AccountedAfter
<1>8. Alone'
  <2>1. ASSUME Cardinality(Dispatches) = 1
        PROVE  /\ \A a \in Aggregates : /\ Len(log'[a]) <= MaxEvents
                                        /\ snapshots'[a].sequence <= Len(log'[a])
                                        /\ \A snap \in writing'[a] : snap.sequence <= Len(log'[a])
               /\ \A x \in Dispatches :
                     /\ dispatches'[x].pc = "events" =>
                           dispatches'[x].sequence <= Len(log'[dispatches'[x].aggregate])
                     /\ dispatches'[x].pc \in Staged =>
                           dispatches'[x].sequence = Len(log'[dispatches'[x].aggregate])
               /\ ~Transactional => \A a \in Aggregates : \A n \in 1 .. Len(log'[a]) :
                     \/ log'[a][n] \in published'
                     \/ \E x \in Dispatches : log'[a][n] \in Carried(dispatches'[x])
    <3>1. StoreCurrent /\ (~Transactional => AllKnown)
      BY <1>0, <2>1 DEF Alone
    <3>2. \A x \in Dispatches : dispatches'[x].pc \notin Staged /\ dispatches'[x].pc # "events"
      <4>1. \A x \in Dispatches : dispatches'[x] = to
        BY <1>0, <1>3, <2>1, OnlyDispatch
      <4> QED BY <1>a, <4>1 DEF Staged
    <3>3. \A a \in Aggregates : /\ Len(log'[a]) <= MaxEvents
                                /\ snapshots'[a].sequence <= Len(log'[a])
                                /\ \A snap \in writing'[a] : snap.sequence <= Len(log'[a])
      BY <1>1, <3>1 DEF StoreCurrent
    <3>4. ASSUME ~Transactional, NEW a \in Aggregates, NEW n \in 1 .. Len(log'[a])
          PROVE  \/ log'[a][n] \in published'
                 \/ \E x \in Dispatches : log'[a][n] \in Carried(dispatches'[x])
      <4>1. Known(log'[a][n])
        BY <1>1, <3>1, <3>4 DEF AllKnown
      <4> QED BY <1>6, <4>1
    <3> QED BY <3>2, <3>3, <3>4
  <2> QED BY <1>1, <2>1, AloneAfter
<1> QED BY <1>4, <1>5, <1>7, <1>8 DEF Inv

LEMMA SnapshotWrittenKept ==
  ASSUME Inv, NEW b \in Aggregates, SnapshotWritten(b)
  PROVE  Inv'
<1>0. Types /\ SequencesDense /\ Accounted /\ Alone
  BY DEF Inv
<1>1. PICK snap \in writing[b] :
         /\ snapshots' = [snapshots EXCEPT ![b] = snap] \/ snapshots' = snapshots
         /\ writing' = [writing EXCEPT ![b] = @ \ {snap}]
  BY DEF SnapshotWritten
<1>2. UNCHANGED <<workload, log, dispatches, published, rejected>>
  BY DEF SnapshotWritten
<1>3. DOMAIN snapshots = Aggregates /\ DOMAIN writing = Aggregates
  BY <1>0 DEF Types
<1>4. /\ DOMAIN snapshots' = Aggregates
      /\ \A a \in Aggregates : snapshots'[a] = snapshots[a] \/ snapshots'[a] \in writing[a]
  BY <1>1, <1>3
<1>5. DOMAIN writing' = Aggregates /\ \A a \in Aggregates : writing'[a] \subseteq writing[a]
  BY <1>1, <1>3
<1>6. Types'
  <2>1. \A a \in Aggregates : snapshots'[a].sequence \in Nat
    BY <1>0, <1>4 DEF Types
  <2>2. \A a \in Aggregates : \A s \in writing'[a] : s.sequence \in Nat
    BY <1>0, <1>5 DEF Types
  <2> QED BY <1>0, <1>2, <1>4, <1>5, <2>1, <2>2, TypesAfter DEF Types
<1>7. SequencesDense'
  BY <1>0, <1>2, DenseAfter DEF SequencesDense, Guarded
<1>8. ASSUME NEW e, Known(e)
      PROVE  e \in published' \/ \E x \in Dispatches : e \in Carried(dispatches'[x])
  BY <1>2, <1>8 DEF Known
<1>9. Accounted'
  <2>1. ASSUME NEW a \in Aggregates, NEW n \in 1 .. Len(log'[a])
        PROVE  \/ LeftBy(log'[a][n], rejected') \/ log'[a][n] \in published'
               \/ \E x \in Dispatches : log'[a][n] \in Carried(dispatches'[x])
    <3>1. LeftBy(log'[a][n], rejected') \/ Known(log'[a][n])
      BY <1>0, <1>2 DEF Accounted
    <3> QED BY <1>8, <3>1
  <2> QED BY <1>2, <2>1, AccountedAfter
<1>10. Alone'
  <2>1. ASSUME Cardinality(Dispatches) = 1
        PROVE  /\ \A a \in Aggregates : /\ Len(log'[a]) <= MaxEvents
                                        /\ snapshots'[a].sequence <= Len(log'[a])
                                        /\ \A s \in writing'[a] : s.sequence <= Len(log'[a])
               /\ \A x \in Dispatches :
                     /\ dispatches'[x].pc = "events" =>
                           dispatches'[x].sequence <= Len(log'[dispatches'[x].aggregate])
                     /\ dispatches'[x].pc \in Staged =>
                           dispatches'[x].sequence = Len(log'[dispatches'[x].aggregate])
               /\ ~Transactional => \A a \in Aggregates : \A n \in 1 .. Len(log'[a]) :
                     \/ log'[a][n] \in published'
                     \/ \E x \in Dispatches : log'[a][n] \in Carried(dispatches'[x])
    <3>1. StoreCurrent /\ HandlersCurrent /\ (~Transactional => AllKnown)
      BY <1>0, <2>1 DEF Alone
    <3>2. \A a \in Aggregates : /\ Len(log'[a]) <= MaxEvents
                                /\ snapshots'[a].sequence <= Len(log'[a])
                                /\ \A s \in writing'[a] : s.sequence <= Len(log'[a])
      BY <1>2, <1>4, <1>5, <3>1 DEF StoreCurrent
    <3>3. \A x \in Dispatches :
                     /\ dispatches'[x].pc = "events" =>
                           dispatches'[x].sequence <= Len(log'[dispatches'[x].aggregate])
                     /\ dispatches'[x].pc \in Staged =>
                           dispatches'[x].sequence = Len(log'[dispatches'[x].aggregate])
      BY <1>2, <3>1 DEF HandlersCurrent
    <3>4. ASSUME ~Transactional, NEW a \in Aggregates, NEW n \in 1 .. Len(log'[a])
          PROVE  \/ log'[a][n] \in published'
                 \/ \E x \in Dispatches : log'[a][n] \in Carried(dispatches'[x])
      <4>1. Known(log'[a][n])
        BY <1>2, <3>1, <3>4 DEF AllKnown
      <4> QED BY <1>8, <4>1
    <3> QED BY <3>2, <3>3, <3>4
  <2> QED BY <1>2, <2>1, AloneAfter
<1> QED BY <1>6, <1>7, <1>9, <1>10 DEF Inv

-----------------------------------------------------------------------------
(* The invariant and the theorems. *)

LEMMA InitInv == Init => Inv
<1> SUFFICES ASSUME Init PROVE Inv
  OBVIOUS
<1>1. /\ workload \in Workloads /\ log = [a \in Aggregates |-> <<>>]
      /\ DOMAIN snapshots = Aggregates /\ \A a \in Aggregates : snapshots[a].sequence = 0
      /\ writing = [a \in Aggregates |-> {}]
      /\ dispatches = [d \in Dispatches |-> Idle]
  BY DEF Init
<1>2. WellFormed(Idle) /\ Idle.pc = "idle"
  BY DEF WellFormed, Idle, Loaded, Staged
<1>3. <<>> \in Seq(Recorded) /\ Len(<<>>) = 0
  OBVIOUS
<1>4. Types
  <2>1. log \in [Aggregates -> Seq(Recorded)]
    BY <1>1, <1>3
  <2>2. DOMAIN dispatches = Dispatches /\ \A d \in Dispatches : WellFormed(dispatches[d])
    BY <1>1, <1>2
  <2>3. DOMAIN writing = Aggregates /\ \A a \in Aggregates : \A snap \in writing[a] : snap.sequence \in Nat
    BY <1>1
  <2>4. \A a \in Aggregates : snapshots[a].sequence \in Nat
    BY <1>1
  <2> QED BY <1>1, <2>1, <2>2, <2>3, <2>4 DEF Types
<1>5. \A a \in Aggregates : Len(log[a]) = 0
  BY <1>1, <1>3
<1>6. SequencesDense /\ Accounted
  BY <1>5 DEF SequencesDense, Guarded, Accounted
<1>7. StoreCurrent
  <2>1. MaxEvents \in Nat
    BY <1>4, Sizes
  <2> QED BY <1>1, <1>5, <2>1 DEF StoreCurrent
<1>8. HandlersCurrent
  BY <1>1, <1>2 DEF HandlersCurrent, Staged
<1>9. AllKnown
  BY <1>5 DEF AllKnown
<1> QED BY <1>4, <1>6, <1>7, <1>8, <1>9 DEF Inv, Alone

LEMMA NextInv ==
  ASSUME Inv, [Next]_vars
  PROVE  Inv'
<1>1. CASE UNCHANGED vars
  <2>1. UNCHANGED <<workload, log, snapshots, writing, dispatches, published, rejected>>
    BY <1>1 DEF vars
  <2>3. Types'
    BY <2>1, TypesAfter DEF Inv, Types
  <2>4. SequencesDense'
    BY <2>1, DenseAfter DEF Inv, SequencesDense, Guarded
  <2>6. Accounted'
    BY <2>1, AccountedAfter DEF Inv, Accounted, Known
  <2>7. Alone'
    BY <2>1, AloneAfter DEF Inv, Alone, StoreCurrent, HandlersCurrent, AllKnown, Known
  <2> QED BY <2>3, <2>4, <2>6, <2>7 DEF Inv
<1>2. ASSUME NEW d \in Dispatches,
             \/ ReadSnapshot(d) \/ ReadEvents(d) \/ Append1(d) \/ CheckSequence(d) \/ Insert(d) \/ Finish(d)
             \/ StatementFails(d) \/ CommitUnanswered(d)
      PROVE  Inv'
  BY <1>2, ReadSnapshotKept, ReadEventsKept, AppendKept, FinishKept, StatementFailsKept, UnansweredKept
<1>3. ASSUME NEW d \in Dispatches, NEW cmd \in Commands, Dispatch(d, cmd) PROVE Inv'
  BY <1>3, DispatchKept
<1>4. ASSUME NEW a \in Aggregates, SnapshotWritten(a) PROVE Inv'
  BY <1>4, SnapshotWrittenKept
<1> QED BY <1>1, <1>2, <1>3, <1>4 DEF Next

LEMMA InvAlways == Spec => []Inv
<1>1. Inv /\ [Next]_vars => Inv'
  BY NextInv
<1> QED BY InitInv, <1>1, PTL DEF Spec

\* The events of every aggregate are numbered 1, 2, 3, ... in the order of the log, however
\* many handlers of the in-memory store decided on the same state, for every workload,
\* snapshot interval and size of the dedup cache; on the SQL store for one command at a time.
THEOREM AlwaysDense == Spec => []SequencesDense
<1>1. Inv => SequencesDense
  BY DEF Inv
<1> QED BY <1>1, InvAlways, PTL

\* When no command is under way every event of the log has been handed to the subscribers,
\* except events of commands that were rejected after some of their events had been stored;
\* in memory these are vehicle events of joins and leaves whose room met a conflict, and
\* commands that run alone leave none behind.
THEOREM AlwaysPublished == Spec => []LoggedIsPublished
<1>1. ASSUME Inv PROVE LoggedIsPublished
  <2> DEFINE logged == UNION {ToSet(log[a]) : a \in Aggregates}
             missing == logged \ published
  <2>1. SUFFICES ASSUME \A d \in Dispatches : dispatches[d] = Idle
                 PROVE  /\ \A e \in missing : e.cause \in rejected
                        /\ ~Transactional =>
                              /\ \A e \in missing : /\ e.aggregate = e.client
                                                    /\ e.type \in {"room_joined", "room_left"}
                              /\ Cardinality(Dispatches) = 1 => missing = {}
    BY DEF LoggedIsPublished
  <2>2. \A e : Known(e) => e \in published
    BY <2>1 DEF Known, Carried, Idle, Staged
  <2>3. ASSUME NEW e \in logged
        PROVE  \E a \in Aggregates : \E n \in 1 .. Len(log[a]) : e = log[a][n]
    <3>1. PICK a \in Aggregates : e \in ToSet(log[a])
      OBVIOUS
    <3>2. log[a] \in Seq(Recorded)
      BY <1>1 DEF Inv, Types
    <3>3. DOMAIN log[a] = 1 .. Len(log[a])
      BY <3>2, LenProperties
    <3> QED BY <3>1, <3>3 DEF ToSet
  <2> HIDE DEF logged
  <2>4. ASSUME NEW e \in missing PROVE LeftBy(e, rejected)
    BY <1>1, <2>2, <2>3 DEF Inv, Accounted
  <2>5. ASSUME ~Transactional, Cardinality(Dispatches) = 1, NEW e \in missing PROVE FALSE
    BY <1>1, <2>2, <2>3, <2>5 DEF Inv, Alone, AllKnown
  <2>6. ASSUME ~Transactional, NEW e \in missing
        PROVE  e.aggregate = e.client /\ e.type \in {"room_joined", "room_left"}
    BY <2>4, <2>6 DEF LeftBy, Loose, Membership
  <2>7. \A e \in missing : e.cause \in rejected
    BY <2>4 DEF LeftBy
  <2> QED BY <2>5, <2>6, <2>7
<1>2. Inv => LoggedIsPublished
  BY <1>1
<1> QED BY <1>2, InvAlways, PTL

-----------------------------------------------------------------------------
(* Induction. *)

\* Induction over the naturals, for a set.
LEMMA Induct ==
  ASSUME NEW S, 0 \in S, \A n \in Nat : n \in S => n + 1 \in S
  PROVE  Nat \subseteq S
<1> DEFINE T == Nat \ S
<1>1. SUFFICES ASSUME T # {} PROVE FALSE
  OBVIOUS
<1>2. PICK x \in T : \A y \in T : x <= y
  <2>1. T \subseteq Nat
    OBVIOUS
  <2> HIDE DEF T
  <2> QED BY <1>1, <2>1, LeastNat
<1>3. x \in Nat /\ x # 0 /\ x \notin S
  OBVIOUS
<1>4. x - 1 \in Nat /\ ~(x <= x - 1) /\ x = (x - 1) + 1
  BY <1>3
<1>5. x - 1 \in S
  BY <1>2, <1>4
<1> QED BY <1>3, <1>4, <1>5

\* A bounded set of naturals has a greatest element, and Max is it.
LEMMA Greatest ==
  ASSUME NEW L \in Nat, NEW t \in SUBSET (1 .. L), t # {}
  PROVE  /\ Max(t) \in t /\ \A y \in t : y <= Max(t)
         /\ \A x \in t : (\A y \in t : y <= x) => Max(t) = x
<1> DEFINE U == {n \in Nat : \A y \in t : y <= n}
<1>1. L \in U /\ U \subseteq Nat /\ \A y \in t : y \in Nat /\ 1 <= y
  OBVIOUS
<1>2. PICK u \in U : \A y \in U : u <= y
  <2> HIDE DEF U
  <2> QED BY <1>1, LeastNat
<1>3. u \in Nat /\ \A y \in t : y <= u
  OBVIOUS
<1>4. u \in t
  <2>1. SUFFICES ASSUME u \notin t PROVE FALSE
    OBVIOUS
  <2>2. u # 0
    <3>1. PICK y \in t : TRUE
      OBVIOUS
    <3> QED BY <1>1, <1>3, <3>1
  <2>3. u - 1 \in Nat /\ \A y \in t : y <= u - 1
    BY <1>1, <1>3, <2>1, <2>2
  <2>4. u - 1 \in U
    BY <2>3
  <2> QED BY <1>2, <1>3, <2>4
<1>5. \A x \in t : (\A y \in t : x >= y) => x = u
  BY <1>1, <1>3, <1>4
<1>6. \A y \in t : u >= y
  BY <1>1, <1>3
<1>7. Max(t) = u
  BY <1>4, <1>5, <1>6 DEF Max
<1>8. \A x \in t : (\A y \in t : y <= x) => x = u
  BY <1>1, <1>3, <1>4
<1> QED BY <1>3, <1>4, <1>7, <1>8

-----------------------------------------------------------------------------
(* loadFromHistory. *)

\* The states that a fold of Mutate goes through.
IsRun(r, s, es) ==
    /\ DOMAIN r = 0 .. Len(es) /\ r[0] = s
    /\ \A k \in 1 .. Len(es) : r[k] = Mutate(r[k - 1], es[k])

\* The fold of Folds, a function of the sets of indices that have been folded.
IsFold(g, s, es, L) ==
    g = [t \in SUBSET (1 .. L) |-> IF t = {} THEN s ELSE Mutate(g[t \ {Max(t)}], es[Max(t)])]

LEMMA FoldExists ==
  ASSUME NEW s, NEW es, NEW L \in Nat
  PROVE  \E g : IsFold(g, s, es, L)
<1> DEFINE Is(g, k) == IsFold(g, s, es, k)
           S == {k \in Nat : \E g : Is(g, k)}
<1>1. 0 \in S
  <2> DEFINE g == [t \in SUBSET (1 .. 0) |-> s]
  <2>1. \A t \in SUBSET (1 .. 0) : t = {}
    OBVIOUS
  <2>2. Is(g, 0)
    BY <2>1 DEF IsFold
  <2> HIDE DEF Is
  <2> QED BY <2>2
<1>2. ASSUME NEW k \in Nat, k \in S PROVE k + 1 \in S
  <2>1. PICK g : Is(g, k)
    BY <1>2
  <2> DEFINE z == k + 1
             h == [t \in SUBSET (1 .. z) |-> IF z \in t THEN Mutate(g[t \ {z}], es[z]) ELSE g[t]]
             v(t) == IF t = {} THEN s ELSE Mutate(h[t \ {Max(t)}], es[Max(t)])
  <2>2. /\ \A t \in SUBSET (1 .. k) : g[t] = IF t = {} THEN s ELSE Mutate(g[t \ {Max(t)}], es[Max(t)])
    BY <2>1, Zenon DEF IsFold
  <2>3. z \in Nat /\ \A n : n \in 1 .. z <=> n \in 1 .. k \/ n = z
    OBVIOUS
  <2>4. ASSUME NEW t \in SUBSET (1 .. z) PROVE h[t] = v(t)
    <3>1. CASE z \in t
      <4>1. Max(t) = z
        <5>1. \A y \in t : y <= z
          BY <2>3
        <5> HIDE DEF z, h
        <5> QED BY <2>3, <2>4, <3>1, <5>1, Greatest
      <4>2. t \ {z} \in SUBSET (1 .. z) /\ z \notin t \ {z} /\ t # {}
        BY <3>1
      <4>3. h[t \ {z}] = g[t \ {z}]
        BY <4>2
      <4>4. h[t] = Mutate(g[t \ {z}], es[z])
        BY <3>1
      <4> HIDE DEF h, z
      <4> QED BY <4>1, <4>2, <4>3, <4>4
    <3>2. CASE z \notin t
      <4>1. t \in SUBSET (1 .. k)
        BY <2>3, <3>2
      <4>2. h[t] = g[t]
        BY <3>2
      <4>3. CASE t = {}
        BY <2>2, <4>1, <4>2, <4>3
      <4>4. CASE t # {}
        <5>1. Max(t) \in t
          BY <4>1, <4>4, Greatest
        <5>2. t \ {Max(t)} \in SUBSET (1 .. z) /\ z \notin t \ {Max(t)}
          BY <3>2
        <5>3. h[t \ {Max(t)}] = g[t \ {Max(t)}]
          BY <5>2
        <5> HIDE DEF h, z
        <5> QED BY <2>2, <4>1, <4>2, <4>4, <5>3
      <4> QED BY <4>3, <4>4
    <3> QED BY <3>1, <3>2
  <2>5. DOMAIN h = SUBSET (1 .. z) /\ h = [t \in DOMAIN h |-> h[t]]
    OBVIOUS
  <2> HIDE DEF h
  <2>6. h = [t \in SUBSET (1 .. z) |-> v(t)]
    BY <2>4, <2>5
  <2>7. Is(h, z)
    BY <2>6, Zenon DEF IsFold
  <2> HIDE DEF Is
  <2> QED BY <2>7
<1> HIDE DEF Is
<1>3. Nat \subseteq S
  <2> HIDE DEF S
  <2> QED BY <1>1, <1>2, Induct
<1>4. \E g : Is(g, L)
  BY <1>3
<1> QED BY <1>4 DEF Is

\* Every replay has a run, and its last state is the result.
LEMMA ReplayedRun ==
  ASSUME NEW s, NEW R, NEW es \in Seq(R)
  PROVE  \E r : IsRun(r, s, es) /\ Replayed(s, es) = r[Len(es)]
<1> DEFINE L == Len(es)
           iter == CHOOSE g : g = [t \in SUBSET (1 .. L) |->
                        IF t = {} THEN s ELSE Mutate(g[t \ {Max(t)}], es[Max(t)])]
           r == [k \in 0 .. L |-> iter[1 .. k]]
<1>1. L \in Nat /\ DOMAIN es = 1 .. L
  BY LenProperties
<1>2. Replayed(s, es) = iter[1 .. L]
  <2>1. Replayed(s, es) = (CHOOSE g : g = [t \in SUBSET (DOMAIN es) |->
                        IF t = {} THEN s ELSE Mutate(g[t \ {Max(t)}], es[Max(t)])])[DOMAIN es]
    BY DEF Replayed, FoldLeft, MapThenFoldSet
  <2> QED BY <1>1, <2>1
<1>3. iter = [t \in SUBSET (1 .. L) |->
                        IF t = {} THEN s ELSE Mutate(iter[t \ {Max(t)}], es[Max(t)])]
  <2>1. \E g : IsFold(g, s, es, L)
    BY <1>1, FoldExists
  <2>2. iter = CHOOSE g : IsFold(g, s, es, L)
    BY DEF IsFold
  <2> HIDE DEF iter
  <2>3. IsFold(iter, s, es, L)
    BY <2>1, <2>2
  <2> QED BY <2>3 DEF IsFold
<1> HIDE DEF iter
<1>4. \A t \in SUBSET (1 .. L) : iter[t] = IF t = {} THEN s ELSE Mutate(iter[t \ {Max(t)}], es[Max(t)])
  BY <1>3, Zenon
<1>5. r[0] = s
  <2>1. 0 \in 0 .. L /\ 1 .. 0 = {} /\ {} \in SUBSET (1 .. L)
    BY <1>1
  <2> QED BY <1>4, <2>1
<1>6. ASSUME NEW k \in 1 .. L PROVE r[k] = Mutate(r[k - 1], es[k])
  <2> HIDE DEF L
  <2>0. k \in Nat /\ 1 <= k /\ k <= L
    BY <1>1
  <2>1. k \in 0 .. L /\ k - 1 \in 0 .. L /\ 1 .. k \in SUBSET (1 .. L) /\ k \in 1 .. k
        /\ k \in Nat /\ \A y \in 1 .. k : y <= k
    BY <1>1, <2>0
  <2>2. Max(1 .. k) = k /\ 1 .. k # {}
    <3> DEFINE t == 1 .. k
    <3>1. t \in SUBSET (1 .. k) /\ k \in t /\ t # {} /\ \A y \in t : y <= k
      BY <2>1
    <3> HIDE DEF t
    <3>2. Max(t) = k /\ t # {}
      BY <2>1, <3>1, Greatest
    <3> QED BY <3>2 DEF t
  <2>3. (1 .. k) \ {k} = 1 .. (k - 1)
    BY <2>1
  <2>4. iter[1 .. k] = Mutate(iter[1 .. (k - 1)], es[k])
    BY <1>4, <2>1, <2>2, <2>3
  <2> QED BY <2>1, <2>4
<1>7. DOMAIN r = 0 .. L /\ r[L] = iter[1 .. L]
  BY <1>1
<1> HIDE DEF r
<1>8. IsRun(r, s, es) /\ Replayed(s, es) = r[Len(es)]
  BY <1>2, <1>5, <1>6, <1>7 DEF IsRun
<1> QED BY <1>8

\* Runs are unique.
LEMMA RunUnique ==
  ASSUME NEW s, NEW R, NEW es \in Seq(R), NEW r, IsRun(r, s, es)
  PROVE  Replayed(s, es) = r[Len(es)]
<1>1. PICK q : IsRun(q, s, es) /\ Replayed(s, es) = q[Len(es)]
  BY ReplayedRun
<1> DEFINE S == {k \in Nat : k <= Len(es) => q[k] = r[k]}
<1>2. Len(es) \in Nat
  BY LenProperties
<1>3. 0 \in S
  BY <1>1 DEF IsRun
<1>4. ASSUME NEW k \in Nat, k \in S PROVE k + 1 \in S
  <2>1. SUFFICES ASSUME k + 1 <= Len(es) PROVE q[k + 1] = r[k + 1]
    OBVIOUS
  <2>2. k + 1 \in 1 .. Len(es) /\ (k + 1) - 1 = k /\ k <= Len(es)
    BY <1>2, <2>1
  <2>3. q[k] = r[k]
    BY <1>4, <2>2
  <2>4. q[k + 1] = Mutate(q[(k + 1) - 1], es[k + 1]) /\ r[k + 1] = Mutate(r[(k + 1) - 1], es[k + 1])
    BY <1>1, <2>2 DEF IsRun
  <2> QED BY <2>2, <2>3, <2>4
<1>5. Nat \subseteq S
  <2> HIDE DEF S
  <2> QED BY <1>3, <1>4, Induct
<1> QED BY <1>1, <1>2, <1>5

\* Replaying two stretches one after the other is replaying them at once.
LEMMA ReplayedJoined ==
  ASSUME NEW s, NEW R, NEW p \in Seq(R), NEW q \in Seq(R)
  PROVE  Replayed(s, p \o q) = Replayed(Replayed(s, p), q)
<1> DEFINE m == Replayed(s, p)
           pq == p \o q
<1>1. PICK u : IsRun(u, s, p) /\ m = u[Len(p)]
  BY ReplayedRun
<1>2. PICK v : IsRun(v, m, q) /\ Replayed(m, q) = v[Len(q)]
  BY ReplayedRun
<1>3. /\ pq \in Seq(R) /\ Len(pq) = Len(p) + Len(q)
      /\ \A n \in 1 .. Len(p) + Len(q) : pq[n] = IF n <= Len(p) THEN p[n] ELSE q[n - Len(p)]
  BY ConcatProperties
<1>4. Len(p) \in Nat /\ Len(q) \in Nat
  BY LenProperties
<1> HIDE DEF m, pq
<1> DEFINE w == [k \in 0 .. Len(p) + Len(q) |-> IF k <= Len(p) THEN u[k] ELSE v[k - Len(p)]]
<1>5. w[0] = s
  BY <1>1, <1>4 DEF IsRun
<1>6. ASSUME NEW k \in 1 .. Len(p) + Len(q) PROVE w[k] = Mutate(w[k - 1], pq[k])
  <2>1. CASE k <= Len(p)
    <3>1. k \in 1 .. Len(p) /\ k - 1 \in 0 .. Len(p) + Len(q) /\ k - 1 <= Len(p) /\ k \in 0 .. Len(p) + Len(q)
      BY <1>4, <2>1
    <3>2. u[k] = Mutate(u[k - 1], p[k])
      BY <1>1, <3>1 DEF IsRun
    <3>3. w[k] = u[k] /\ w[k - 1] = u[k - 1] /\ pq[k] = p[k]
      BY <1>3, <2>1, <3>1
    <3> QED BY <3>2, <3>3
  <2>2. CASE ~(k <= Len(p))
    <3> DEFINE j == k - Len(p)
    <3>1. j \in 1 .. Len(q) /\ k - 1 \in 0 .. Len(p) + Len(q) /\ k \in 0 .. Len(p) + Len(q) /\ (k - 1) - Len(p) = j - 1
      BY <1>4, <2>2
    <3>2. v[j] = Mutate(v[j - 1], q[j])
      BY <1>2, <3>1 DEF IsRun
    <3>3. w[k] = v[j] /\ pq[k] = q[j]
      BY <1>3, <2>2, <3>1
    <3>4. w[k - 1] = v[j - 1]
      <4>1. CASE k - 1 <= Len(p)
        <5>1. k - 1 = Len(p) /\ j = 1 /\ j - 1 = 0
          BY <1>4, <2>2, <4>1
        <5>2. w[k - 1] = u[Len(p)]
          BY <3>1, <4>1, <5>1
        <5> QED BY <1>1, <1>2, <5>1, <5>2 DEF IsRun
      <4>2. CASE ~(k - 1 <= Len(p))
        BY <3>1, <4>2
      <4> QED BY <4>1, <4>2
    <3> QED BY <3>2, <3>3, <3>4
  <2> QED BY <2>1, <2>2
<1>7. DOMAIN w = 0 .. Len(p) + Len(q)
  OBVIOUS
<1>8. w[Len(p) + Len(q)] = v[Len(q)]
  <2>1. CASE Len(q) = 0
    <3>1. Len(p) + Len(q) = Len(p) /\ Len(p) \in 0 .. Len(p) + Len(q) /\ Len(p) <= Len(p)
      BY <1>4, <2>1
    <3>2. w[Len(p) + Len(q)] = u[Len(p)]
      BY <3>1
    <3> QED BY <1>1, <1>2, <2>1, <3>2 DEF IsRun
  <2>2. CASE Len(q) # 0
    <3>1. Len(p) + Len(q) \in 0 .. Len(p) + Len(q) /\ ~(Len(p) + Len(q) <= Len(p)) /\ (Len(p) + Len(q)) - Len(p) = Len(q)
      BY <1>4, <2>2
    <3> QED BY <3>1
  <2> QED BY <2>1, <2>2
<1> HIDE DEF w
<1>9. IsRun(w, s, pq)
  BY <1>3, <1>5, <1>6, <1>7 DEF IsRun
<1>10. Replayed(s, pq) = w[Len(pq)]
  BY <1>3, <1>9, RunUnique
<1> QED BY <1>2, <1>3, <1>8, <1>10 DEF m, pq

-----------------------------------------------------------------------------
(* What a stretch of the log leads to. *)

\* getEvents on a log that is given.
Selected(q, from, to) ==
    LET kept == {n \in 1 .. Len(q) : q[n].sequence >= from /\ q[n].sequence <= to}
        Place(n) == Cardinality({m \in kept : m <= n})
    IN  [k \in 1 .. Cardinality(kept) |-> q[CHOOSE n \in kept : Place(n) = k]]

\* The state that the first n events of a log lead an aggregate of the kind to.
Led(kind, q, n) == Replayed(FreshState(kind), Selected(q, 1, n))

Dense(q) == \A n \in 1 .. Len(q) : q[n].sequence = n

\* The events after number s of a dense log, up to its end or a given one.
LEMMA SelectedDense ==
  ASSUME NEW R, NEW q \in Seq(R), Dense(q), NEW s \in Nat, NEW to \in Nat, NEW last \in Nat,
         s <= last, last <= Len(q), last <= to, last = Len(q) \/ last = to
  PROVE  LET es == Selected(q, s + 1, to)
         IN  /\ es \in Seq(R) /\ Len(es) = last - s
             /\ \A k \in 1 .. last - s : es[k] = q[s + k]
<1> DEFINE kept == {n \in 1 .. Len(q) : q[n].sequence >= s + 1 /\ q[n].sequence <= to}
           Place(n) == Cardinality({m \in kept : m <= n})
           index(k) == CHOOSE n \in kept : Place(n) = k
           es == Selected(q, s + 1, to)
<1>1. Len(q) \in Nat /\ \A n \in 1 .. Len(q) : q[n] \in R
  BY LenProperties, ElementOfSeq
<1>2. es = [k \in 1 .. Cardinality(kept) |-> q[index(k)]]
  BY DEF Selected
<1>3. kept = s + 1 .. last
  <2>1. \A n \in 1 .. Len(q) : q[n].sequence = n
    BY DEF Dense
  <2>2. \A n : n \in kept <=> n \in 1 .. Len(q) /\ n >= s + 1 /\ n <= to
    BY <2>1
  <2>3. \A n : n \in 1 .. Len(q) /\ n >= s + 1 /\ n <= to <=> n \in s + 1 .. last
    BY <1>1
  <2> HIDE DEF kept
  <2> QED BY <2>2, <2>3
<1> HIDE DEF kept, es
<1>4. Cardinality(kept) = last - s /\ last - s \in Nat
  <2>1. Cardinality(s + 1 .. last) = IF s + 1 > last THEN 0 ELSE last - (s + 1) + 1
    BY FS_Interval
  <2>2. (IF s + 1 > last THEN 0 ELSE last - (s + 1) + 1) = last - s /\ last - s \in Nat
    OBVIOUS
  <2> QED BY <1>3, <2>1, <2>2
<1>5. ASSUME NEW k \in 1 .. last - s PROVE index(k) = s + k
  <2>1. \A n \in kept : Place(n) = n - s
    <3>1. TAKE n \in kept
    <3>2. n \in Nat /\ s + 1 <= n /\ n <= last
      BY <1>3
    <3>3. {m \in kept : m <= n} = s + 1 .. n
      <4>1. \A m : m \in {x \in kept : x <= n} <=> m \in s + 1 .. n
        BY <1>3, <3>2
      <4> QED BY <4>1
    <3>4. Cardinality(s + 1 .. n) = IF s + 1 > n THEN 0 ELSE n - (s + 1) + 1
      BY <3>2, FS_Interval
    <3>5. (IF s + 1 > n THEN 0 ELSE n - (s + 1) + 1) = n - s
      BY <3>2
    <3> QED BY <3>3, <3>4, <3>5
  <2>2. s + k \in kept /\ (s + k) - s = k /\ \A n \in kept : n - s = k => n = s + k
    BY <1>3
  <2> HIDE DEF Place
  <2>3. Place(s + k) = k /\ \A n \in kept : Place(n) = k => n = s + k
    BY <2>1, <2>2
  <2> QED BY <2>2, <2>3
<1> HIDE DEF index
<1>6. ASSUME NEW k \in 1 .. last - s PROVE es[k] = q[s + k] /\ es[k] \in R
  <2>1. s + k \in 1 .. Len(q)
    BY <1>1
  <2>2. es[k] = q[index(k)]
    BY <1>2, <1>4
  <2> QED BY <1>1, <1>5, <2>1, <2>2
<1>7. es \in [1 .. last - s -> R]
  BY <1>2, <1>4, <1>6
<1>8. es \in Seq(R)
  BY <1>4, <1>7, SeqDef
<1>9. Len(es) = last - s
  <2>1. Len(es) \in Nat /\ DOMAIN es = 1 .. Len(es)
    BY <1>8, LenProperties
  <2> QED BY <1>4, <1>7, <2>1
<1> QED BY <1>6, <1>8, <1>9 DEF es

LEMMA FirstEvents ==
  ASSUME NEW R, NEW q \in Seq(R), Dense(q), NEW n \in Nat, n <= Len(q)
  PROVE  LET es == Selected(q, 1, n)
         IN  es \in Seq(R) /\ Len(es) = n /\ \A k \in 1 .. n : es[k] = q[k]
<1> DEFINE z == 0
           es == Selected(q, z + 1, n)
<1>1. Len(q) \in Nat /\ z \in Nat /\ z <= n /\ n - z = n /\ \A k \in 1 .. n : z + k = k
  BY LenProperties
<1>2. z + 1 = 1
  OBVIOUS
<1> HIDE DEF z
<1>3. es \in Seq(R) /\ Len(es) = n - z /\ \A k \in 1 .. n - z : es[k] = q[z + k]
  <2>1. n <= n /\ n = n
    OBVIOUS
  <2> QED BY <1>1, <2>1, SelectedDense
<1>4. es \in Seq(R) /\ Len(es) = n /\ \A k \in 1 .. n : es[k] = q[k]
  <2> HIDE DEF es
  <2> QED BY <1>1, <1>3
<1> QED BY <1>2, <1>4

\* Sequences with the same events are equal.
LEMMA SameEvents ==
  ASSUME NEW R, NEW p \in Seq(R), NEW q \in Seq(R), Len(p) = Len(q), \A k \in 1 .. Len(p) : p[k] = q[k]
  PROVE  p = q
BY SeqEqual

\* Appending does not change what came before.
LEMMA LedPrefix ==
  ASSUME NEW R, NEW q \in Seq(R), NEW b \in Seq(R), Dense(q), Dense(q \o b), NEW a, NEW n \in Nat, n <= Len(q)
  PROVE  Led(a, q \o b, n) = Led(a, q, n)
<1> DEFINE p == q \o b
           x == Selected(p, 1, n)
           y == Selected(q, 1, n)
<1>1. Len(q) \in Nat /\ Len(b) \in Nat
  BY LenProperties
<1>2. /\ p \in Seq(R) /\ Len(p) = Len(q) + Len(b)
      /\ \A k \in 1 .. Len(q) + Len(b) : p[k] = IF k <= Len(q) THEN q[k] ELSE b[k - Len(q)]
  BY ConcatProperties
<1>3. Dense(p)
  OBVIOUS
<1> HIDE DEF p
<1>4. x \in Seq(R) /\ Len(x) = n /\ \A k \in 1 .. n : x[k] = p[k]
  <2>1. n <= Len(p)
    BY <1>1, <1>2
  <2> QED BY <1>2, <1>3, <2>1, FirstEvents
<1>5. y \in Seq(R) /\ Len(y) = n /\ \A k \in 1 .. n : y[k] = q[k]
  BY FirstEvents
<1>6. \A k \in 1 .. n : p[k] = q[k]
  BY <1>1, <1>2
<1> HIDE DEF x, y
<1>7. x = y
  BY <1>4, <1>5, <1>6, SameEvents
<1> QED BY <1>7 DEF Led, x, y, p

\* The state at the end of a longer log.
LEMMA LedEnd ==
  ASSUME NEW R, NEW q \in Seq(R), NEW b \in Seq(R), Dense(q), Dense(q \o b), NEW a
  PROVE  Led(a, q \o b, Len(q) + Len(b)) = Replayed(Led(a, q, Len(q)), b)
<1> DEFINE p == q \o b
           x == Selected(p, 1, Len(q) + Len(b))
           y == Selected(q, 1, Len(q))
<1>1. Len(q) \in Nat /\ Len(b) \in Nat /\ Len(q) + Len(b) \in Nat
  BY LenProperties
<1>2. p \in Seq(R) /\ Len(p) = Len(q) + Len(b)
  BY ConcatProperties
<1>3. Dense(p)
  OBVIOUS
<1> HIDE DEF p
<1>4. x \in Seq(R) /\ Len(x) = Len(p) /\ \A k \in 1 .. Len(p) : x[k] = p[k]
  BY <1>1, <1>2, <1>3, FirstEvents
<1>5. y \in Seq(R) /\ Len(y) = Len(q) /\ \A k \in 1 .. Len(q) : y[k] = q[k]
  BY <1>1, FirstEvents
<1> HIDE DEF x, y
<1>6. x = p
  BY <1>2, <1>4, SameEvents
<1>7. y = q
  BY <1>5, SameEvents
<1>8. Replayed(FreshState(a), q \o b) = Replayed(Replayed(FreshState(a), q), b)
  BY ReplayedJoined
<1> QED BY <1>6, <1>7, <1>8 DEF Led, x, y, p

\* A snapshot and the events after it lead to the end of the log.
LEMMA LedDelta ==
  ASSUME NEW R, NEW q \in Seq(R), Dense(q), NEW a, NEW n \in Nat, n <= Len(q),
         NEW max \in Nat, Len(q) <= max
  PROVE  Replayed(Led(a, q, n), Selected(q, n + 1, max)) = Led(a, q, Len(q))
<1> DEFINE L == Len(q)
           x == Selected(q, 1, n)
           y == Selected(q, n + 1, max)
           z == Selected(q, 1, L)
           xy == x \o y
<1>1. L \in Nat
  BY LenProperties
<1>2. x \in Seq(R) /\ Len(x) = n /\ \A k \in 1 .. n : x[k] = q[k]
  BY FirstEvents
<1>3. y \in Seq(R) /\ Len(y) = L - n /\ \A k \in 1 .. L - n : y[k] = q[n + k]
  BY <1>1, SelectedDense
<1>4. z \in Seq(R) /\ Len(z) = L /\ \A k \in 1 .. L : z[k] = q[k]
  BY <1>1, FirstEvents
<1> HIDE DEF x, y, z
<1>5. /\ xy \in Seq(R) /\ Len(xy) = Len(x) + Len(y)
      /\ \A k \in 1 .. Len(x) + Len(y) : xy[k] = IF k <= Len(x) THEN x[k] ELSE y[k - Len(x)]
  BY <1>2, <1>3, ConcatProperties
<1>6. Replayed(FreshState(a), xy) = Replayed(Replayed(FreshState(a), x), y)
  BY <1>2, <1>3, ReplayedJoined
<1> HIDE DEF xy, L
<1>7. Len(xy) = L /\ Len(x) + Len(y) = L
  BY <1>1, <1>2, <1>3, <1>5 DEF L
<1>8. ASSUME NEW k \in 1 .. L PROVE xy[k] = q[k]
  <2>1. CASE k <= n
    BY <1>1, <1>2, <1>5, <1>7, <2>1
  <2>2. CASE ~(k <= n)
    <3>1. k - n \in 1 .. L - n /\ n + (k - n) = k
      BY <1>1, <2>2
    <3>2. xy[k] = y[k - n]
      BY <1>1, <1>2, <1>5, <1>7, <2>2
    <3>3. y[k - n] = q[n + (k - n)]
      BY <1>3, <3>1
    <3> QED BY <3>1, <3>2, <3>3
  <2> QED BY <2>1, <2>2
<1>9. xy = z
  BY <1>4, <1>5, <1>7, <1>8, SameEvents
<1> QED BY <1>6, <1>9 DEF Led, x, y, z, L

-----------------------------------------------------------------------------
(* Loaded states are those of the log. *)

\* A snapshot or a handler's aggregate is the state of the log at its number, unless its
\* id is one of both kinds.
Matches(it, a, q) ==
    /\ it.sequence <= Len(q)
    /\ a \notin Mixed => it.kind = KindOf(a) /\ it.state = Led(it.kind, q, it.sequence)

SoundStore == \A a \in Aggregates :
    Len(log[a]) <= MaxEvents /\ \A snap \in writing[a] \cup {snapshots[a]} : Matches(snap, a, log[a])
SoundHandlers == \A d \in Dispatches :
    /\ dispatches[d].pc \in Loaded => Matches(dispatches[d], dispatches[d].aggregate, log[dispatches[d].aggregate])
    /\ dispatches[d].pc \in Staged =>
          dispatches[d].events.staged = Decided(dispatches[d].kind, dispatches[d].cmd, dispatches[d].state)

Sound == Guarded => SoundStore /\ SoundHandlers

\* An id that is not mixed has handlers of its kind only.
LEMMA KindIs ==
  ASSUME NEW it, it.cmd \in Commands, OfKind(it), it.aggregate \notin Mixed
  PROVE  it.kind = KindOf(it.aggregate) /\ it.kind \in {"vehicle", "room"}
<1>1. CASE it.kind = "vehicle" /\ it.aggregate = it.cmd.client
  BY <1>1 DEF KindOf
<1>2. CASE it.kind = "room" /\ it.aggregate = it.cmd.room /\ TouchesRoom(it.cmd)
  <2>1. it.aggregate \in {cmd.room : cmd \in {x \in Commands : TouchesRoom(x)}}
    BY <1>2
  <2>2. it.aggregate \notin {cmd.client : cmd \in Commands}
    BY <2>1 DEF Mixed
  <2>3. ~ \E cmd \in Commands : cmd.client = it.aggregate
    BY <2>2
  <2> QED BY <1>2, <2>3 DEF KindOf
<1> QED BY <1>1, <1>2 DEF OfKind

LEMMA SelectedIs ==
  ASSUME NEW a, NEW from, NEW to
  PROVE  Events(a, from, to) = Selected(log[a], from, to)
BY DEF Events, Selected

LEMMA MatchesAfter ==
  ASSUME NEW R, NEW q \in Seq(R), NEW b \in Seq(R), Dense(q), Dense(q \o b), NEW a, NEW it,
         it.sequence \in Nat, Matches(it, a, q)
  PROVE  Matches(it, a, q \o b)
<1>1. Len(q) \in Nat /\ Len(b) \in Nat /\ Len(q \o b) = Len(q) + Len(b)
  BY LenProperties, ConcatProperties
<1>2. /\ it.sequence <= Len(q)
      /\ a \notin Mixed => it.kind = KindOf(a) /\ it.state = Led(it.kind, q, it.sequence)
  BY DEF Matches
<1>3. Led(it.kind, q \o b, it.sequence) = Led(it.kind, q, it.sequence)
  BY <1>2, LedPrefix
<1>4. it.sequence <= Len(q \o b)
  BY <1>1, <1>2
<1> QED BY <1>2, <1>3, <1>4 DEF Matches

LEMMA SoundAfter ==
  ASSUME workload' = workload,
         Guarded =>
            /\ \A a \in Aggregates :
                  /\ Len(log'[a]) <= MaxEvents /\ Matches(snapshots'[a], a, log'[a])
                  /\ \A snap \in writing'[a] : Matches(snap, a, log'[a])
            /\ \A d \in Dispatches :
                  /\ dispatches'[d].pc \in Loaded =>
                        Matches(dispatches'[d], dispatches'[d].aggregate, log'[dispatches'[d].aggregate])
                  /\ dispatches'[d].pc \in Staged =>
                        dispatches'[d].events.staged =
                           Decided(dispatches'[d].kind, dispatches'[d].cmd, dispatches'[d].state)
  PROVE  Sound'
<1>1. Dispatches' = Dispatches /\ MaxEvents' = MaxEvents /\ (Guarded' <=> Guarded)
  BY DEF Dispatches, MaxEvents, Guarded, Transactional
<1>2. SUFFICES ASSUME Guarded PROVE SoundStore' /\ SoundHandlers'
  BY <1>1, Zenon DEF Sound
<1>3. ASSUME NEW a \in Aggregates, NEW snap \in writing'[a] \cup {snapshots'[a]}
      PROVE  Matches(snap, a, log'[a])
  BY <1>2, <1>3
<1>6. Mixed' = Mixed /\ Commands' = Commands
  BY DEF Mixed, Commands
<1>7. ASSUME NEW a, NEW snap PROVE Matches(snap, a, log[a])' <=> Matches(snap, a, log'[a])
  BY <1>6 DEF Matches, KindOf
<1>8. ASSUME NEW a \in Aggregates, NEW snap \in (writing[a] \cup {snapshots[a]})'
      PROVE  Matches(snap, a, log[a])'
  BY <1>3, <1>7, <1>8
<1>4. SoundStore'
  BY <1>1, <1>2, <1>8, Zenon DEF SoundStore, Aggregates
<1>9. ASSUME NEW d \in Dispatches
      PROVE  Matches(dispatches[d], dispatches[d].aggregate, log[dispatches[d].aggregate])'
                <=> Matches(dispatches'[d], dispatches'[d].aggregate, log'[dispatches'[d].aggregate])
  BY <1>6 DEF Matches, KindOf
<1>5. SoundHandlers'
  BY <1>1, <1>2, <1>9, Zenon DEF SoundHandlers, Loaded, Staged
<1> QED BY <1>4, <1>5

LEMMA SoundParts ==
  ASSUME Inv, Sound, Guarded
  PROVE  /\ \A a \in Aggregates :
               /\ log[a] \in Seq(Recorded) /\ Len(log[a]) \in Nat /\ Dense(log[a]) /\ Len(log[a]) <= MaxEvents
               /\ Matches(snapshots[a], a, log[a]) /\ snapshots[a].sequence \in Nat
               /\ \A snap \in writing[a] : Matches(snap, a, log[a]) /\ snap.sequence \in Nat
         /\ \A d \in Dispatches :
               /\ dispatches[d].pc \in Loaded =>
                     /\ Matches(dispatches[d], dispatches[d].aggregate, log[dispatches[d].aggregate])
                     /\ dispatches[d].sequence \in Nat /\ dispatches[d].aggregate \in Aggregates
               /\ dispatches[d].pc \in Staged =>
                     dispatches[d].events.staged =
                        Decided(dispatches[d].kind, dispatches[d].cmd, dispatches[d].state)
         /\ MaxEvents \in Nat
<1>1. Types /\ SequencesDense /\ SoundStore /\ SoundHandlers
  BY DEF Inv, Sound
<1>2. MaxEvents \in Nat /\ \A a \in Aggregates : log[a] \in Seq(Recorded) /\ Len(log[a]) \in Nat
  BY <1>1, Sizes
<1>3. \A a \in Aggregates : Dense(log[a])
  BY <1>1 DEF SequencesDense, Dense
<1>4. \A a \in Aggregates : /\ Len(log[a]) <= MaxEvents /\ Matches(snapshots[a], a, log[a])
                            /\ \A snap \in writing[a] : Matches(snap, a, log[a])
  BY <1>1 DEF SoundStore
<1>5. \A a \in Aggregates : snapshots[a].sequence \in Nat /\ \A snap \in writing[a] : snap.sequence \in Nat
  BY <1>1 DEF Types
<1>6. ASSUME NEW d \in Dispatches, dispatches[d].pc \in Loaded
      PROVE  dispatches[d].sequence \in Nat /\ dispatches[d].aggregate \in Aggregates
  <2>1. WellFormed(dispatches[d]) /\ workload \in Workloads
    BY <1>1 DEF Types
  <2>2. /\ dispatches[d].cmd \in Commands /\ dispatches[d].sequence \in Nat
        /\ OfKind(dispatches[d])
    BY <1>6, <2>1 DEF WellFormed, Loaded
  <2> QED BY <2>1, <2>2, CommandTyped DEF OfKind
<1>7. \A d \in Dispatches :
         /\ dispatches[d].pc \in Loaded =>
               Matches(dispatches[d], dispatches[d].aggregate, log[dispatches[d].aggregate])
         /\ dispatches[d].pc \in Staged =>
               dispatches[d].events.staged =
                  Decided(dispatches[d].kind, dispatches[d].cmd, dispatches[d].state)
  BY <1>1 DEF SoundHandlers
<1> QED BY <1>2, <1>3, <1>4, <1>5, <1>6, <1>7

\* A handler moves on while the store stays as it is.
LEMMA SoundQuiet ==
  ASSUME Inv, Sound, NEW d \in Dispatches, NEW to, Goes(d, to),
         UNCHANGED <<workload, log, snapshots, writing>>,
         Guarded => /\ to.pc \in Loaded => Matches(to, to.aggregate, log[to.aggregate])
                    /\ to.pc \in Staged => to.events.staged = Decided(to.kind, to.cmd, to.state)
  PROVE  Sound'
<1>1. /\ dispatches'[d] = to
      /\ \A x \in Dispatches : x # d => dispatches'[x] = dispatches[x]
  BY DEF Inv, Types, Goes
<1>2. ASSUME Guarded
      PROVE  /\ \A a \in Aggregates :
                   /\ Len(log'[a]) <= MaxEvents /\ Matches(snapshots'[a], a, log'[a])
                   /\ \A snap \in writing'[a] : Matches(snap, a, log'[a])
             /\ \A x \in Dispatches :
                   /\ dispatches'[x].pc \in Loaded =>
                         Matches(dispatches'[x], dispatches'[x].aggregate, log'[dispatches'[x].aggregate])
                   /\ dispatches'[x].pc \in Staged =>
                         dispatches'[x].events.staged =
                            Decided(dispatches'[x].kind, dispatches'[x].cmd, dispatches'[x].state)
  <2>1. \A a \in Aggregates :
                   /\ Len(log'[a]) <= MaxEvents /\ Matches(snapshots'[a], a, log'[a])
                   /\ \A snap \in writing'[a] : Matches(snap, a, log'[a])
    BY <1>2, SoundParts
  <2>2. ASSUME NEW x \in Dispatches
        PROVE  /\ dispatches'[x].pc \in Loaded =>
                         Matches(dispatches'[x], dispatches'[x].aggregate, log'[dispatches'[x].aggregate])
               /\ dispatches'[x].pc \in Staged =>
                         dispatches'[x].events.staged =
                            Decided(dispatches'[x].kind, dispatches'[x].cmd, dispatches'[x].state)
    <3>1. CASE x = d
      BY <1>1, <1>2, <3>1
    <3>2. CASE x # d
      <4>1. dispatches'[x] = dispatches[x] /\ log' = log
        BY <1>1, <3>2
      <4> QED BY <1>2, <4>1, SoundParts
    <3> QED BY <3>1, <3>2
  <2> QED BY <2>1, <2>2
<1> QED BY <1>2, SoundAfter

LEMMA ReadSnapshotSound ==
  ASSUME Inv, Sound, NEW d \in Dispatches, ReadSnapshot(d)
  PROVE  Sound'
<1> DEFINE it == dispatches[d]
           snap == snapshots[it.aggregate]
           to == [pc |-> "events", cmd |-> it.cmd, kind |-> it.kind, aggregate |-> it.aggregate,
                  events |-> it.events,
                  sequence |-> snap.sequence, state |-> Restored(it.kind, snap)]
<1>1. it.pc = "snapshot" /\ Goes(d, to) /\ UNCHANGED <<workload, log, snapshots, writing>>
  BY DEF ReadSnapshot
<1>2. it.cmd \in Commands /\ OfKind(it)
  BY <1>1 DEF Inv, Types, WellFormed
<1>3. it.aggregate \in Aggregates
  BY <1>2, CommandTyped DEF Inv, Types, OfKind
<1>8. it.aggregate \notin Mixed => it.kind = KindOf(it.aggregate)
  BY <1>2, KindIs
<1>4. /\ to.pc = "events" /\ to.aggregate = it.aggregate /\ to.kind = it.kind
      /\ to.sequence = snap.sequence /\ to.state = Restored(it.kind, snap)
  OBVIOUS
<1>5. Guarded => Matches(snap, it.aggregate, log[it.aggregate])
  BY <1>3, SoundParts
<1> HIDE DEF to, it, snap
<1>6. Guarded => Matches(to, to.aggregate, log[to.aggregate])
  BY <1>4, <1>5, <1>8 DEF Matches, Restored
<1>7. to.pc \notin Staged
  BY <1>4 DEF Staged
<1> QED BY <1>1, <1>6, <1>7, SoundQuiet

LEMMA ReadEventsSound ==
  ASSUME Inv, Sound, NEW d \in Dispatches, ReadEvents(d)
  PROVE  Sound'
<1> DEFINE it == dispatches[d]
           a == it.aggregate
           state == Replayed(it.state, Delta(a, it.sequence))
           staged == Decided(it.kind, it.cmd, state)
<1>0. Types
  BY DEF Inv
<1>1. /\ it.pc = "events"
      /\ IF staged = <<>> THEN Proceed(d, it.events)
         ELSE Goes(d, [it EXCEPT !.pc = "append", !.sequence = Reached(a, it.sequence), !.state = state,
                                 !.events = [staged |-> staged, earlier |-> it.events]])
      /\ UNCHANGED <<workload, log, snapshots, writing>>
  BY DEF ReadEvents, Reached
<1>2. /\ it.cmd \in Commands /\ OfKind(it) /\ it.events \subseteq LooseOf(it.cmd)
      /\ it.sequence \in Nat
      /\ DOMAIN it = {"pc", "cmd", "kind", "aggregate", "events", "sequence", "state"}
  BY <1>0, <1>1 DEF Types, WellFormed, Loaded
<1>3. a \in Aggregates
  BY <1>0, <1>2, CommandTyped DEF Types, OfKind
<1>4. dispatches[d].pc \in Loaded
  BY <1>1 DEF Loaded
<1>5. CASE staged = <<>>
  <2>1. PICK to : /\ Goes(d, to) /\ WellFormed(to) /\ Carried(to) = it.events
                  /\ to.pc \in {"snapshot", "settled"}
    <3>1. Proceed(d, it.events)
      BY <1>1, <1>5
    <3> QED BY <1>0, <1>2, <1>4, <3>1, ProceedTo
  <2>2. to.pc \notin Staged /\ to.pc \notin Loaded
    BY <2>1 DEF Staged, Loaded
  <2> QED BY <1>1, <2>1, <2>2, SoundQuiet
<1>6. CASE staged # <<>>
  <2> DEFINE reached == Reached(a, it.sequence)
             to == [it EXCEPT !.pc = "append", !.sequence = reached, !.state = state,
                              !.events = [staged |-> staged, earlier |-> it.events]]
  <2>1. Goes(d, to)
    BY <1>1, <1>6
  <2>2. Guarded => /\ reached = Len(log[a])
                   /\ a \notin Mixed => it.kind = KindOf(a) /\ state = Led(it.kind, log[a], Len(log[a]))
    <3>1. SUFFICES ASSUME Guarded
                   PROVE  /\ reached = Len(log[a])
                          /\ a \notin Mixed =>
                                it.kind = KindOf(a) /\ state = Led(it.kind, log[a], Len(log[a]))
      OBVIOUS
    <3>2. /\ log[a] \in Seq(Recorded) /\ Len(log[a]) \in Nat /\ Dense(log[a]) /\ Len(log[a]) <= MaxEvents
          /\ MaxEvents \in Nat /\ Matches(it, a, log[a])
      BY <1>3, <1>4, <3>1, SoundParts
    <3>3. /\ it.sequence <= Len(log[a])
          /\ a \notin Mixed => it.kind = KindOf(a) /\ it.state = Led(it.kind, log[a], it.sequence)
      BY <3>2 DEF Matches
    <3>4. reached = Len(log[a])
      BY <1>0, <1>2, <1>3, <3>2, <3>3, ReachedEnd DEF Dense
    <3>5. Delta(a, it.sequence) = Selected(log[a], it.sequence + 1, MaxEvents)
      BY SelectedIs DEF Delta
    <3>6. Replayed(Led(it.kind, log[a], it.sequence), Selected(log[a], it.sequence + 1, MaxEvents))
            = Led(it.kind, log[a], Len(log[a]))
      BY <1>2, <3>2, <3>3, LedDelta
    <3> QED BY <3>3, <3>4, <3>5, <3>6
  <2>3. staged = Decided(it.kind, it.cmd, state)
    OBVIOUS
  <2> HIDE DEF reached, it, state, staged
  <2>4. /\ to.pc = "append" /\ to.cmd = it.cmd /\ to.aggregate = it.aggregate /\ to.sequence = reached
        /\ to.state = state /\ to.events = [staged |-> staged, earlier |-> it.events] /\ to.kind = it.kind
    BY <1>2
  <2>5. to.events.staged = staged
    BY <2>4
  <2> HIDE DEF to
  <2>6. Guarded => Matches(to, to.aggregate, log[to.aggregate])
    <3>1. SUFFICES ASSUME Guarded PROVE Matches(to, to.aggregate, log[to.aggregate])
      OBVIOUS
    <3>2. Len(log[a]) \in Nat
      BY <1>3, <3>1, SoundParts
    <3>3. Len(log[a]) <= Len(log[a])
      BY <3>2
    <3> QED BY <2>2, <2>4, <3>1, <3>3 DEF Matches
  <2>7. to.events.staged = Decided(to.kind, to.cmd, to.state)
    BY <2>3, <2>4, <2>5
  <2> QED BY <1>1, <2>1, <2>6, <2>7, SoundQuiet
<1> QED BY <1>5, <1>6

\* append() accepts only what was decided at the end of the log.
LEMMA Accepted ==
  ASSUME Inv, NEW d \in Dispatches,
         \/ Append1(d) /\ ~Conflicts(dispatches[d].aggregate, dispatches[d].sequence)
         \/ Insert(d) \/ CommitUnanswered(d)
  PROVE  /\ Commit(d) \/ CommitUnanswered(d)
         /\ Stored(d) /\ dispatches[d].pc \in Staged /\ workload' = workload
         /\ Guarded => dispatches[d].sequence = Len(log[dispatches[d].aggregate])
<1> DEFINE it == dispatches[d]
<1>0. Commit(d) => Stored(d) /\ workload' = workload
  BY DEF Commit
<1>1. it.pc \in Staged
  BY DEF Append1, Insert, CommitUnanswered, Staged
<1>2. /\ it.aggregate \in Aggregates
      /\ Cardinality(Dispatches) = 1 => it.sequence = Len(log[it.aggregate])
  BY <1>1, StagedFacts
<1>3. CASE Append1(d) /\ ~Conflicts(it.aggregate, it.sequence)
  <2>1. Commit(d) /\ ~Transactional
    BY <1>3 DEF Append1
  <2>2. \A n \in 1 .. Len(log[it.aggregate]) : log[it.aggregate][n].sequence = n
    BY <1>2, <2>1 DEF Inv, SequencesDense, Guarded
  <2>3. HighestSequence(it.aggregate) = Len(log[it.aggregate])
    BY <1>2, <2>2, HighestIsLength DEF Inv
  <2> QED BY <1>0, <1>1, <1>3, <2>1, <2>3 DEF Conflicts
<1>4. CASE Insert(d) \/ CommitUnanswered(d)
  <2>1. /\ Commit(d) \/ CommitUnanswered(d)
        /\ Stored(d) /\ workload' = workload /\ it.pc = "insert"
    BY <1>0, <1>4 DEF Insert, CommitUnanswered, Rejected
  <2>2. Transactional
    BY <2>1 DEF Inv, Types, WellFormed
  <2> QED BY <1>1, <1>2, <2>1, <2>2 DEF Guarded
<1> QED BY <1>3, <1>4

\* What an accepted append does to the log.
LEMMA Appended ==
  ASSUME Inv, Inv', NEW d \in Dispatches, dispatches[d].pc \in Staged, Stored(d), workload' = workload
  PROVE  LET it == dispatches[d]
             a == it.aggregate
             batch == Batch(d)
         IN  /\ a \in Aggregates /\ it.sequence \in Nat /\ batch \in Seq(Recorded) /\ Len(batch) \in Nat
             /\ log'[a] = log[a] \o batch /\ Len(log[a]) + Len(batch) <= MaxEvents
             /\ \A b \in Aggregates : b # a => log'[b] = log[b]
             /\ Guarded => \A b \in Aggregates : Dense(log[b]) /\ Dense(log'[b])
<1> DEFINE it == dispatches[d]
           a == it.aggregate
           batch == Batch(d)
<1>0. Types /\ SequencesDense /\ SequencesDense'
  BY DEF Inv
<1>1. a \in Aggregates /\ it.sequence \in Nat /\ it.events.staged \in Seq(Recorded)
  BY StagedFacts
<1>2. /\ Len(log[a]) + Len(batch) <= MaxEvents
      /\ log' = [log EXCEPT ![a] = log[a] \o batch]
  BY DEF Stored, Batch
<1>3. batch \in Seq(Recorded) /\ Len(batch) \in Nat
  BY <1>0, <1>1, NumberedTyped DEF Types, Batch
<1> HIDE DEF batch, it
<1>4. DOMAIN log = Aggregates
  BY <1>0 DEF Types
<1>5. log'[a] = log[a] \o batch /\ \A b \in Aggregates : b # a => log'[b] = log[b]
  BY <1>1, <1>2, <1>4
<1>7. Guarded' <=> Guarded
  BY DEF Guarded, Transactional, Dispatches
<1>8. Guarded => \A b \in Aggregates : Dense(log[b]) /\ Dense(log'[b])
  BY <1>0, <1>7 DEF SequencesDense, Dense, Aggregates
<1> QED BY <1>1, <1>2, <1>3, <1>5, <1>8 DEF batch, it

\* The store accepts the events and the handler goes on or is done.
LEMMA StoredSound ==
  ASSUME Inv, Inv', Sound, NEW d \in Dispatches, dispatches[d].pc \in Staged, Stored(d),
         UNCHANGED <<workload, snapshots>>,
         \/ writing' = writing
         \/ writing' = [writing EXCEPT ![dispatches[d].aggregate] = @ \cup {Taken(d)}],
         NEW to, Goes(d, to), to.pc \notin Loaded, to.pc \notin Staged,
         Guarded => dispatches[d].sequence = Len(log[dispatches[d].aggregate])
  PROVE  Sound'
<1> DEFINE it == dispatches[d]
           a == it.aggregate
           batch == Batch(d)
           taken == Taken(d)
<1>0. /\ a \in Aggregates /\ it.sequence \in Nat /\ batch \in Seq(Recorded) /\ Len(batch) \in Nat
      /\ log'[a] = log[a] \o batch /\ Len(log[a]) + Len(batch) <= MaxEvents
      /\ \A b \in Aggregates : b # a => log'[b] = log[b]
      /\ Guarded => \A b \in Aggregates : Dense(log[b]) /\ Dense(log'[b])
  BY Appended
<1>2. \A b \in Aggregates : \A snap \in writing'[b] : snap \in writing[b] \/ (b = a /\ snap = taken)
  <2>1. DOMAIN writing = Aggregates
    BY DEF Inv, Types
  <2> HIDE DEF taken
  <2>2. CASE writing' = writing
    BY <2>2
  <2>3. CASE writing' = [writing EXCEPT ![a] = @ \cup {taken}]
    BY <1>0, <2>1, <2>3
  <2> QED BY <2>2, <2>3 DEF taken
<1>1. /\ a \in Aggregates /\ it.sequence \in Nat /\ batch \in Seq(Recorded) /\ Len(batch) \in Nat
      /\ log'[a] = log[a] \o batch /\ Len(log[a]) + Len(batch) <= MaxEvents
      /\ \A b \in Aggregates : b # a => log'[b] = log[b]
      /\ \A b \in Aggregates : \A snap \in writing'[b] : snap \in writing[b] \/ (b = a /\ snap = taken)
      /\ UNCHANGED <<workload, snapshots>>
      /\ Guarded => \A b \in Aggregates : Dense(log[b]) /\ Dense(log'[b])
  BY <1>0, <1>2
<1>3. /\ dispatches'[d] = to
      /\ \A x \in Dispatches : x # d => dispatches'[x] = dispatches[x]
  BY DEF Inv, Types, Goes
<1>4. /\ taken.sequence = it.sequence + Len(batch) /\ taken.state = Replayed(it.state, batch)
      /\ taken.kind = it.kind
  BY DEF Taken
<1>t. dispatches[d].pc \in Loaded
  BY DEF Staged, Loaded
<1> HIDE DEF batch, taken
<1>5. ASSUME Guarded
      PROVE  /\ \A b \in Aggregates :
                   /\ Len(log'[b]) <= MaxEvents /\ Matches(snapshots'[b], b, log'[b])
                   /\ \A snap \in writing'[b] : Matches(snap, b, log'[b])
             /\ \A x \in Dispatches :
                   /\ dispatches'[x].pc \in Loaded =>
                         Matches(dispatches'[x], dispatches'[x].aggregate, log'[dispatches'[x].aggregate])
                   /\ dispatches'[x].pc \in Staged =>
                         dispatches'[x].events.staged =
                            Decided(dispatches'[x].kind, dispatches'[x].cmd, dispatches'[x].state)
  <2>1. /\ log[a] \in Seq(Recorded) /\ Len(log[a]) \in Nat /\ Dense(log[a]) /\ Dense(log[a] \o batch)
        /\ it.sequence = Len(log[a]) /\ Matches(it, a, log[a])
    BY <1>1, <1>5, <1>t, SoundParts
  <2>2. Len(log'[a]) = Len(log[a]) + Len(batch)
    BY <1>1, <2>1, ConcatProperties
  <2>3. ASSUME NEW b \in Aggregates, NEW snap, snap.sequence \in Nat, Matches(snap, b, log[b])
        PROVE  Matches(snap, b, log'[b])
    <3>1. CASE b = a
      <4>1. Matches(snap, a, log[a] \o batch)
        BY <1>1, <2>1, <2>3, <3>1, MatchesAfter
      <4> QED BY <1>1, <3>1, <4>1
    <3>2. CASE b # a
      BY <1>1, <2>3, <3>2
    <3> QED BY <3>1, <3>2
  <2>4. Matches(taken, a, log'[a])
    <3>1. a \notin Mixed => it.kind = KindOf(a) /\ it.state = Led(it.kind, log[a], Len(log[a]))
      BY <2>1 DEF Matches
    <3>2. Led(it.kind, log[a] \o batch, Len(log[a]) + Len(batch))
             = Replayed(Led(it.kind, log[a], Len(log[a])), batch)
      BY <1>1, <2>1, LedEnd
    <3>3. taken.sequence = Len(log'[a]) /\ Len(log'[a]) \in Nat
      BY <1>1, <1>4, <2>1, <2>2
    <3>4. taken.sequence <= Len(log'[a])
      BY <3>3
    <3> QED BY <1>1, <1>4, <2>1, <3>1, <3>2, <3>4 DEF Matches
  <2>5. ASSUME NEW b \in Aggregates
        PROVE  /\ Len(log'[b]) <= MaxEvents /\ Matches(snapshots'[b], b, log'[b])
               /\ \A snap \in writing'[b] : Matches(snap, b, log'[b])
    <3>1. /\ Len(log[b]) <= MaxEvents /\ Matches(snapshots[b], b, log[b]) /\ snapshots[b].sequence \in Nat
          /\ \A snap \in writing[b] : Matches(snap, b, log[b]) /\ snap.sequence \in Nat
      BY <1>5, SoundParts
    <3>2. Len(log'[b]) <= MaxEvents
      <4>1. CASE b = a
        BY <1>1, <2>2, <4>1
      <4>2. CASE b # a
        BY <1>1, <3>1, <4>2
      <4> QED BY <4>1, <4>2
    <3>3. Matches(snapshots'[b], b, log'[b])
      <4>1. Matches(snapshots[b], b, log'[b])
        BY <2>3, <3>1
      <4> QED BY <1>1, <4>1
    <3>4. ASSUME NEW snap \in writing'[b] PROVE Matches(snap, b, log'[b])
      <4>1. CASE snap \in writing[b]
        BY <2>3, <3>1, <4>1
      <4>2. CASE b = a /\ snap = taken
        BY <2>4, <4>2
      <4> QED BY <1>1, <4>1, <4>2
    <3> QED BY <3>2, <3>3, <3>4
  <2>6. ASSUME NEW x \in Dispatches
        PROVE  /\ dispatches'[x].pc \in Loaded =>
                     Matches(dispatches'[x], dispatches'[x].aggregate, log'[dispatches'[x].aggregate])
               /\ dispatches'[x].pc \in Staged =>
                     dispatches'[x].events.staged =
                        Decided(dispatches'[x].kind, dispatches'[x].cmd, dispatches'[x].state)
    <3>1. CASE x = d
      BY <1>3, <3>1
    <3>2. CASE x # d
      <4>1. dispatches'[x] = dispatches[x]
        BY <1>3, <3>2
      <4>2. dispatches[x].pc \in Loaded =>
               Matches(dispatches[x], dispatches[x].aggregate, log'[dispatches[x].aggregate])
        <5>1. SUFFICES ASSUME dispatches[x].pc \in Loaded
                       PROVE  Matches(dispatches[x], dispatches[x].aggregate, log'[dispatches[x].aggregate])
          OBVIOUS
        <5>2. /\ Matches(dispatches[x], dispatches[x].aggregate, log[dispatches[x].aggregate])
              /\ dispatches[x].sequence \in Nat /\ dispatches[x].aggregate \in Aggregates
          BY <1>5, <5>1, SoundParts
        <5> QED BY <2>3, <5>2
      <4>3. dispatches[x].pc \in Staged =>
               dispatches[x].events.staged =
                  Decided(dispatches[x].kind, dispatches[x].cmd, dispatches[x].state)
        BY <1>5, SoundParts
      <4> QED BY <4>1, <4>2, <4>3
    <3> QED BY <3>1, <3>2
  <2> QED BY <2>5, <2>6
<1> QED BY <1>1, <1>5, SoundAfter

LEMMA CommitSound ==
  ASSUME Inv, Inv', Sound, NEW d \in Dispatches, dispatches[d].pc \in Staged, Commit(d),
         Guarded => dispatches[d].sequence = Len(log[dispatches[d].aggregate])
  PROVE  Sound'
<1> DEFINE it == dispatches[d]
<1>1. /\ Stored(d) /\ (\E es : Proceed(d, es)) /\ UNCHANGED <<workload, snapshots>>
      /\ writing' = writing \/ writing' = [writing EXCEPT ![it.aggregate] = @ \cup {Taken(d)}]
  BY DEF Commit, Batch, Taken
<1>2. PICK es : Proceed(d, es)
  BY <1>1
<1> DEFINE next == [pc |-> "snapshot", cmd |-> it.cmd, kind |-> "room", aggregate |-> it.cmd.room,
                    events |-> es]
           done == [pc |-> "settled", cmd |-> it.cmd, events |-> es]
<1>3. Goes(d, next) \/ Goes(d, done)
  BY <1>2 DEF Proceed
<1>4. next.pc = "snapshot" /\ done.pc = "settled"
  OBVIOUS
<1> HIDE DEF next, done
<1>5. PICK to : Goes(d, to) /\ to.pc \notin Loaded /\ to.pc \notin Staged
  BY <1>3, <1>4 DEF Loaded, Staged
<1> QED BY <1>1, <1>5, StoredSound

LEMMA RejectSound ==
  ASSUME Inv, Sound, NEW d \in Dispatches, Reject(d)
  PROVE  Sound'
<1>1. Goes(d, Idle) /\ UNCHANGED <<workload, log, snapshots, writing>>
  BY DEF Reject, Rejected
<1>2. Idle.pc \notin Staged /\ Idle.pc \notin Loaded
  BY DEF Idle, Staged, Loaded
<1> QED BY <1>1, <1>2, SoundQuiet

LEMMA UnansweredSound ==
  ASSUME Inv, Inv', Sound, NEW d \in Dispatches, CommitUnanswered(d)
  PROVE  Sound'
<1>1. /\ Stored(d) /\ dispatches[d].pc \in Staged
      /\ Guarded => dispatches[d].sequence = Len(log[dispatches[d].aggregate])
  BY Accepted
<1>2. Goes(d, Idle) /\ UNCHANGED <<workload, snapshots, writing>>
  BY DEF CommitUnanswered, Rejected
<1>3. Idle.pc \notin Staged /\ Idle.pc \notin Loaded
  BY DEF Idle, Staged, Loaded
<1> DEFINE to == Idle
<1>4. Goes(d, to) /\ to.pc \notin Staged /\ to.pc \notin Loaded
  BY <1>2, <1>3
<1> HIDE DEF to
<1> QED BY <1>1, <1>2, <1>4, StoredSound

LEMMA AppendSound ==
  ASSUME Inv, Inv', Sound, NEW d \in Dispatches, Append1(d) \/ CheckSequence(d) \/ Insert(d)
  PROVE  Sound'
<1> DEFINE it == dispatches[d]
<1>1. it.pc \in Staged /\ it.pc \in Loaded
  BY DEF Append1, CheckSequence, Insert, Staged, Loaded
<1>2. CASE Reject(d)
  BY <1>2, RejectSound
<1>3. CASE Append1(d)
  <2>1. CASE Conflicts(it.aggregate, it.sequence)
    <3>1. Reject(d)
      BY <1>3, <2>1 DEF Append1
    <3> QED BY <1>2, <3>1
  <2>2. CASE ~Conflicts(it.aggregate, it.sequence)
    <3>1. /\ dispatches[d].pc \in Staged
          /\ Guarded => dispatches[d].sequence = Len(log[dispatches[d].aggregate])
      BY <1>3, <2>2, Accepted
    <3>2. Commit(d)
      BY <1>3, <2>2 DEF Append1
    <3> QED BY <3>1, <3>2, CommitSound
  <2> QED BY <2>1, <2>2
<1>4. CASE Insert(d)
  <2>1. /\ dispatches[d].pc \in Staged
        /\ Guarded => dispatches[d].sequence = Len(log[dispatches[d].aggregate])
    BY <1>4, Accepted
  <2>2. Commit(d)
    BY <1>4 DEF Insert
  <2> QED BY <2>1, <2>2, CommitSound
<1>5. CASE CheckSequence(d)
  <2>1. CASE Conflicts(it.aggregate, it.sequence)
    <3>1. Reject(d)
      BY <1>5, <2>1 DEF CheckSequence
    <3> QED BY <1>2, <3>1
  <2>2. CASE ~Conflicts(it.aggregate, it.sequence)
    <3> DEFINE to == [it EXCEPT !.pc = "insert"]
    <3>1. Goes(d, to) /\ UNCHANGED <<workload, log, snapshots, writing>>
      BY <1>5, <2>2 DEF CheckSequence
    <3>2. DOMAIN it = {"pc", "cmd", "kind", "aggregate", "events", "sequence", "state"}
      BY <1>1, StagedFacts
    <3>3. Guarded => Matches(it, it.aggregate, log[it.aggregate])
                     /\ it.events.staged = Decided(it.kind, it.cmd, it.state)
      BY <1>1, SoundParts
    <3> HIDE DEF it
    <3>4. /\ to.cmd = it.cmd /\ to.aggregate = it.aggregate /\ to.events = it.events
          /\ to.sequence = it.sequence /\ to.state = it.state /\ to.kind = it.kind
      BY <3>2
    <3> HIDE DEF to
    <3>5. Guarded => Matches(to, to.aggregate, log[to.aggregate])
                     /\ to.events.staged = Decided(to.kind, to.cmd, to.state)
      BY <3>3, <3>4 DEF Matches
    <3> QED BY <3>1, <3>5, SoundQuiet
  <2> QED BY <2>1, <2>2
<1> QED BY <1>3, <1>4, <1>5

LEMMA SnapshotWrittenSound ==
  ASSUME Inv, Sound, NEW b \in Aggregates, SnapshotWritten(b)
  PROVE  Sound'
<1>1. PICK snap \in writing[b] :
         /\ snapshots' = [snapshots EXCEPT ![b] = snap] \/ snapshots' = snapshots
         /\ writing' = [writing EXCEPT ![b] = @ \ {snap}]
  BY DEF SnapshotWritten
<1>2. UNCHANGED <<workload, log, dispatches>>
  BY DEF SnapshotWritten
<1>3. DOMAIN snapshots = Aggregates /\ DOMAIN writing = Aggregates
  BY DEF Inv, Types
<1>4. \A a \in Aggregates : snapshots'[a] = snapshots[a] \/ snapshots'[a] \in writing[a]
  BY <1>1, <1>3
<1>5. \A a \in Aggregates : writing'[a] \subseteq writing[a]
  BY <1>1, <1>3
<1>6. ASSUME Guarded
      PROVE  /\ \A a \in Aggregates :
                   /\ Len(log'[a]) <= MaxEvents /\ Matches(snapshots'[a], a, log'[a])
                   /\ \A s \in writing'[a] : Matches(s, a, log'[a])
             /\ \A x \in Dispatches :
                   /\ dispatches'[x].pc \in Loaded =>
                         Matches(dispatches'[x], dispatches'[x].aggregate, log'[dispatches'[x].aggregate])
                   /\ dispatches'[x].pc \in Staged =>
                         dispatches'[x].events.staged =
                            Decided(dispatches'[x].kind, dispatches'[x].cmd, dispatches'[x].state)
  <2>1. log' = log /\ dispatches' = dispatches
    BY <1>2
  <2>2. \A a \in Aggregates :
               /\ Len(log[a]) <= MaxEvents /\ Matches(snapshots[a], a, log[a])
               /\ \A s \in writing[a] : Matches(s, a, log[a])
    BY <1>6, SoundParts
  <2>3. \A a \in Aggregates :
               /\ Len(log'[a]) <= MaxEvents /\ Matches(snapshots'[a], a, log'[a])
               /\ \A s \in writing'[a] : Matches(s, a, log'[a])
    BY <1>4, <1>5, <2>1, <2>2
  <2>4. \A x \in Dispatches :
                   /\ dispatches'[x].pc \in Loaded =>
                         Matches(dispatches'[x], dispatches'[x].aggregate, log'[dispatches'[x].aggregate])
                   /\ dispatches'[x].pc \in Staged =>
                         dispatches'[x].events.staged =
                            Decided(dispatches'[x].kind, dispatches'[x].cmd, dispatches'[x].state)
    BY <1>6, <2>1, SoundParts
  <2> QED BY <2>3, <2>4
<1> QED BY <1>2, <1>6, SoundAfter

LEMMA NextSound ==
  ASSUME Inv, Inv', Sound, [Next]_vars
  PROVE  Sound'
<1>1. CASE UNCHANGED vars
  <2>1. UNCHANGED <<workload, log, snapshots, writing, dispatches>>
    BY <1>1 DEF vars
  <2> QED BY <2>1, SoundParts, SoundAfter
<1>2. ASSUME NEW d \in Dispatches, NEW cmd \in Commands, Dispatch(d, cmd) PROVE Sound'
  <2> DEFINE to == [pc |-> "snapshot", cmd |-> cmd, kind |-> "vehicle", aggregate |-> cmd.client, events |-> {}]
  <2>1. Goes(d, to) /\ UNCHANGED <<workload, log, snapshots, writing>>
    BY <1>2 DEF Dispatch
  <2>2. to.pc \notin Staged /\ to.pc \notin Loaded
    BY DEF Staged, Loaded
  <2> HIDE DEF to
  <2> QED BY <2>1, <2>2, SoundQuiet
<1>3. ASSUME NEW d \in Dispatches, Finish(d) PROVE Sound'
  <2>1. Goes(d, Idle) /\ UNCHANGED <<workload, log, snapshots, writing>>
    BY <1>3 DEF Finish
  <2>2. Idle.pc \notin Staged /\ Idle.pc \notin Loaded
    BY DEF Idle, Staged, Loaded
  <2> QED BY <2>1, <2>2, SoundQuiet
<1>4. ASSUME NEW d \in Dispatches,
             \/ ReadSnapshot(d) \/ ReadEvents(d) \/ Append1(d) \/ CheckSequence(d) \/ Insert(d)
             \/ StatementFails(d) \/ CommitUnanswered(d)
      PROVE  Sound'
  <2>1. StatementFails(d) => Reject(d)
    BY DEF StatementFails
  <2> QED BY <1>4, <2>1, ReadSnapshotSound, ReadEventsSound, AppendSound, RejectSound, UnansweredSound
<1>5. ASSUME NEW a \in Aggregates, SnapshotWritten(a) PROVE Sound'
  BY <1>5, SnapshotWrittenSound
<1> QED BY <1>1, <1>2, <1>3, <1>4, <1>5 DEF Next

LEMMA InitSound == Init => Sound
<1> SUFFICES ASSUME Init PROVE Sound
  OBVIOUS
<1>1. Inv
  BY InitInv
<1>2. /\ log = [a \in Aggregates |-> <<>>] /\ writing = [a \in Aggregates |-> {}]
      /\ snapshots = [a \in Aggregates |->
                         [kind |-> KindOf(a), sequence |-> 0, state |-> FreshState(KindOf(a))]]
      /\ dispatches = [d \in Dispatches |-> Idle]
  BY DEF Init
<1>3. ASSUME NEW a \in Aggregates
      PROVE  /\ Len(log[a]) <= MaxEvents
             /\ \A snap \in writing[a] \cup {snapshots[a]} : Matches(snap, a, log[a])
  <2>1. /\ log[a] = <<>> /\ writing[a] = {} /\ snapshots[a].sequence = 0
        /\ snapshots[a].state = FreshState(KindOf(a)) /\ snapshots[a].kind = KindOf(a)
    BY <1>2
  <2>2. MaxEvents \in Nat
    BY <1>1, Sizes DEF Inv
  <2>3. <<>> \in Seq(Recorded) /\ Len(<<>>) = 0 /\ Dense(<<>>)
    BY DEF Dense
  <2> DEFINE es == Selected(<<>>, 1, 0)
  <2>4. es \in Seq(Recorded) /\ Len(es) = 0
    <3>1. 0 \in Nat /\ 0 <= Len(<<>>)
      BY <2>3
    <3> QED BY <2>3, <3>1, FirstEvents
  <2> HIDE DEF es
  <2>5. PICK r : /\ IsRun(r, FreshState(KindOf(a)), es)
                 /\ Replayed(FreshState(KindOf(a)), es) = r[Len(es)]
    BY <2>4, ReplayedRun
  <2>6. Led(KindOf(a), <<>>, 0) = FreshState(KindOf(a))
    BY <2>4, <2>5 DEF IsRun, Led, es
  <2>7. Matches(snapshots[a], a, log[a])
    BY <2>1, <2>3, <2>6 DEF Matches
  <2> QED BY <2>1, <2>2, <2>3, <2>7
<1>4. Idle.pc \notin Loaded /\ Idle.pc \notin Staged
  BY DEF Idle, Loaded, Staged
<1>5. SoundStore
  BY <1>3 DEF SoundStore
<1>6. SoundHandlers
  BY <1>2, <1>4 DEF SoundHandlers
<1> QED BY <1>5, <1>6 DEF Sound

LEMMA SoundAlways == Spec => [](Inv /\ Sound)
<1>1. Init => Inv /\ Sound
  BY InitInv, InitSound
<1>2. Inv /\ Sound /\ [Next]_vars => (Inv /\ Sound)'
  BY NextInv, NextSound
<1> QED BY <1>1, <1>2, PTL DEF Spec

\* For every workload and snapshot interval: snapshots, stored or under way, and the states
\* that handlers have loaded from snapshot and delta are those that replaying the whole log
\* up to their sequence number gives, for every id that the commands do not use both for a
\* client and for a room.
THEOREM AlwaysLoadsLog == Spec => []LoadsMatchLog
<1>1. ASSUME Inv, Sound PROVE LoadsMatchLog
  <2>1. SUFFICES ASSUME Guarded
                 PROVE  /\ \A a \in Aggregates \ Mixed : \A snap \in writing[a] \cup {snapshots[a]} :
                              snap.state = UpTo(a, snap.sequence)
                        /\ \A d \in Dispatches :
                              dispatches[d].pc \in {"append", "insert"} /\ dispatches[d].aggregate \notin Mixed =>
                              dispatches[d].state = UpTo(dispatches[d].aggregate, dispatches[d].sequence)
    BY DEF LoadsMatchLog
  <2>2. \A a, n : UpTo(a, n) = Led(KindOf(a), log[a], n)
    BY SelectedIs DEF UpTo, Led
  <2>3. \A a \in Aggregates : \A snap \in writing[a] \cup {snapshots[a]} : Matches(snap, a, log[a])
    BY <1>1, <2>1 DEF Sound, SoundStore
  <2>4. \A d \in Dispatches : dispatches[d].pc \in {"append", "insert"} =>
           Matches(dispatches[d], dispatches[d].aggregate, log[dispatches[d].aggregate])
    BY <1>1, <2>1 DEF Sound, SoundHandlers, Loaded
  <2> QED BY <2>2, <2>3, <2>4 DEF Matches
<1>2. Inv /\ Sound => LoadsMatchLog
  BY <1>1
<1> QED BY <1>2, SoundAlways, PTL

-----------------------------------------------------------------------------
(* Entries and exits of geofences. *)

Vehicle(s) == DOMAIN s = {"kind", "rooms", "acked", "inside", "fences", "updates"} /\ s.kind = "vehicle"

\* The crossings of a fence among the first k events, and whether the latest is an entry.
At(es, f, k) == {n \in 1 .. k : Crosses(es[n], f)}
Entered(es, f, k) == At(es, f, k) # {} /\ es[Max(At(es, f, k))].type = "geofence_entered"

\* Events that mutate() of a vehicle knows.
OfVehicle(es) == \A n \in 1 .. Len(es) : es[n].type \in EventTypes

LEMMA InsideStep ==
  ASSUME NEW s, Vehicle(s), NEW e, e.type \in EventTypes, NEW f
  PROVE  /\ Vehicle(Mutate(s, e))
         /\ Crosses(e, f) => (f \in Mutate(s, e).inside <=> e.type = "geofence_entered")
         /\ ~Crosses(e, f) => (f \in Mutate(s, e).inside <=> f \in s.inside)
<1> DEFINE m == MutateVehicle(s, e)
<1>1. Mutate(s, e) = m
  BY DEF Mutate, Vehicle
<1>2. ASSUME e.type \notin {"geofence_entered", "geofence_exited"}
      PROVE  Vehicle(m) /\ m.inside = s.inside
  <2>1. CASE e.type = "location_update"
    BY <2>1 DEF MutateVehicle, Vehicle
  <2>2. CASE e.type = "room_joined"
    BY <2>2 DEF MutateVehicle, Vehicle
  <2>3. CASE e.type = "room_left"
    BY <2>3 DEF MutateVehicle, Vehicle
  <2>4. CASE e.type = "geofence_updated"
    BY <2>4 DEF MutateVehicle, Vehicle
  <2>5. CASE e.type = "session_resumed"
    BY <2>5 DEF MutateVehicle, Vehicle
  <2>6. CASE e.type = "message_ack"
    BY <2>6 DEF MutateVehicle, Vehicle
  <2>7. CASE e.type = "message_nack"
    BY <2>7 DEF MutateVehicle, Vehicle
  <2> QED BY <1>2, <2>1, <2>2, <2>3, <2>4, <2>5, <2>6, <2>7 DEF EventTypes
<1>3. ASSUME e.type = "geofence_entered" PROVE Vehicle(m) /\ m.inside = s.inside \cup e.fences
  BY <1>3 DEF MutateVehicle, Vehicle
<1>4. ASSUME e.type = "geofence_exited" PROVE Vehicle(m) /\ m.inside = s.inside \ e.fences
  BY <1>4 DEF MutateVehicle, Vehicle
<1> HIDE DEF m
<1>5. CASE e.type = "geofence_entered"
  BY <1>1, <1>3, <1>5 DEF Crosses
<1>6. CASE e.type = "geofence_exited"
  BY <1>1, <1>4, <1>6 DEF Crosses
<1>7. CASE e.type \notin {"geofence_entered", "geofence_exited"}
  BY <1>1, <1>2, <1>7 DEF Crosses
<1> QED BY <1>5, <1>6, <1>7

\* After replaying events a vehicle is inside the fences whose latest crossing is an entry.
LEMMA InsideIs ==
  ASSUME NEW R, NEW es \in Seq(R), OfVehicle(es), NEW r, IsRun(r, FreshState("vehicle"), es), NEW f
  PROVE  Vehicle(r[Len(es)]) /\ (f \in r[Len(es)].inside <=> Entered(es, f, Len(es)))
<1> DEFINE L == Len(es)
           S == {k \in Nat : k <= L => Vehicle(r[k]) /\ (f \in r[k].inside <=> Entered(es, f, k))}
<1>1. L \in Nat
  BY LenProperties
<1>2. 0 \in S
  <2>1. r[0] = FreshState("vehicle")
    BY DEF IsRun
  <2>2. Vehicle(FreshState("vehicle")) /\ FreshState("vehicle").inside = {}
    BY DEF Vehicle, FreshState
  <2>3. At(es, f, 0) = {}
    BY DEF At
  <2> QED BY <2>1, <2>2, <2>3 DEF Entered
<1>3. ASSUME NEW k \in Nat, k \in S PROVE k + 1 \in S
  <2>1. SUFFICES ASSUME k + 1 <= L
                 PROVE  Vehicle(r[k + 1]) /\ (f \in r[k + 1].inside <=> Entered(es, f, k + 1))
    OBVIOUS
  <2> DEFINE z == k + 1
             e == es[z]
  <2>2. z \in 1 .. L /\ z - 1 = k /\ k <= L /\ z \in Nat /\ \A n : n \in 1 .. z <=> n \in 1 .. k \/ n = z
    BY <1>1, <2>1
  <2>3. Vehicle(r[k]) /\ (f \in r[k].inside <=> Entered(es, f, k))
    BY <1>3, <2>2
  <2>4. r[z] = Mutate(r[k], e) /\ e.type \in EventTypes
    <3>1. r[z] = Mutate(r[z - 1], es[z])
      BY <2>2 DEF IsRun
    <3> QED BY <2>2, <3>1 DEF OfVehicle
  <2> HIDE DEF z, e
  <2>5. /\ Vehicle(r[z])
        /\ Crosses(e, f) => (f \in r[z].inside <=> e.type = "geofence_entered")
        /\ ~Crosses(e, f) => (f \in r[z].inside <=> f \in r[k].inside)
    BY <2>3, <2>4, InsideStep
  <2>6. CASE Crosses(e, f)
    <3> DEFINE t == At(es, f, z)
    <3>1. t \in SUBSET (1 .. z) /\ z \in t /\ t # {} /\ \A y \in t : y <= z
      BY <2>2, <2>6 DEF At, e
    <3> HIDE DEF t
    <3>2. Max(t) = z
      BY <2>2, <3>1, Greatest
    <3> QED BY <2>5, <2>6, <3>1, <3>2 DEF Entered, t, e, z
  <2>7. CASE ~Crosses(e, f)
    <3>1. At(es, f, z) = At(es, f, k)
      BY <2>2, <2>7 DEF At, e
    <3> QED BY <2>3, <2>5, <2>7, <3>1 DEF Entered, z
  <2> QED BY <2>6, <2>7
<1>4. Nat \subseteq S
  <2> HIDE DEF S
  <2> QED BY <1>2, <1>3, Induct
<1>5. L \in S /\ L <= L
  BY <1>1, <1>4
<1> QED BY <1>5

\* The state at the end of a vehicle's log.
LEMMA LedInside ==
  ASSUME NEW R, NEW q \in Seq(R), Dense(q), OfVehicle(q), NEW f
  PROVE  f \in Led("vehicle", q, Len(q)).inside <=> Entered(q, f, Len(q))
<1> DEFINE es == Selected(q, 1, Len(q))
<1>1. Len(q) \in Nat
  BY LenProperties
<1>2. es \in Seq(R) /\ Len(es) = Len(q) /\ \A k \in 1 .. Len(q) : es[k] = q[k]
  <2>1. Len(q) <= Len(q)
    BY <1>1
  <2> QED BY <1>1, <2>1, FirstEvents
<1> HIDE DEF es
<1>3. es = q
  BY <1>2, SameEvents
<1>5. PICK r : IsRun(r, FreshState("vehicle"), q) /\ Replayed(FreshState("vehicle"), q) = r[Len(q)]
  BY ReplayedRun
<1>6. Led("vehicle", q, Len(q)) = r[Len(q)]
  BY <1>3, <1>5 DEF Led, es
<1>7. f \in r[Len(q)].inside <=> Entered(q, f, Len(q))
  BY <1>5, InsideIs
<1> QED BY <1>6, <1>7

\* SetToSeq lists every element once.
LEMMA OrderedOnce ==
  ASSUME NEW S, IsFiniteSet(S)
  PROVE  \A i, j \in 1 .. Cardinality(S) : SetToSeq(S)[i] = SetToSeq(S)[j] => i = j
<1>1. Cardinality(S) \in Nat /\ ExistsBijection(1 .. Cardinality(S), S)
  BY FS_CardinalityType
<1>2. PICK f \in Bijection(1 .. Cardinality(S), S) : TRUE
  BY <1>1 DEF ExistsBijection
<1>3. f \in [1 .. Cardinality(S) -> S] /\ IsInjective(f)
  BY <1>2 DEF Bijection, Injection, IsInjective
<1>4. SetToSeq(S) \in [1 .. Cardinality(S) -> S] /\ IsInjective(SetToSeq(S))
  BY <1>3 DEF SetToSeq
<1> QED BY <1>4 DEF IsInjective

\* A batch crosses a fence at most once, inwards exactly from outside.
Judged(b, f, s) == \A j \in 1 .. Len(b) : Crosses(b[j], f) =>
    /\ b[j].type = "geofence_entered" <=> f \notin s.inside
    /\ \A i \in 1 .. Len(b) : Crosses(b[i], f) => i = j

LEMMA CrossingsJudged ==
  ASSUME workload \in Workloads, NEW cmd \in Commands, NEW s, NEW f
  PROVE  Judged(Crossings(cmd, s), f, s)
<1> DEFINE configured == UNION {s.fences[r] : r \in Rooms}
           E == {g \in Fences : g \in (configured \cap cmd.within) \ s.inside}
           X == {g \in Fences : g \in (configured \cap s.inside) \ cmd.within}
           entered == SetToSeq(E)
           exited == SetToSeq(X)
           p == [n \in 1 .. Len(entered) |-> Event(cmd.client, cmd, "geofence_entered", {entered[n]})]
           q == [n \in 1 .. Len(exited) |-> Event(cmd.client, cmd, "geofence_exited", {exited[n]})]
<1>1. E \in SUBSET Fences /\ X \in SUBSET Fences /\ (f \in E => f \notin s.inside) /\ (f \in X => f \in s.inside)
  OBVIOUS
<1>2. Crossings(cmd, s) = p \o q
  BY DEF Crossings
<1> HIDE DEF configured, E, X
<1>3. IsFiniteSet(E) /\ IsFiniteSet(X)
  BY <1>1, FencesAssumption, FS_Subset
<1>4. /\ Len(entered) \in Nat /\ entered \in [1 .. Len(entered) -> E]
      /\ \A i, j \in 1 .. Len(entered) : entered[i] = entered[j] => i = j
  BY <1>3, OrderedSet, OrderedOnce
<1>5. /\ Len(exited) \in Nat /\ exited \in [1 .. Len(exited) -> X]
      /\ \A i, j \in 1 .. Len(exited) : exited[i] = exited[j] => i = j
  BY <1>3, OrderedSet, OrderedOnce
<1>6. p \in Seq(Recorded) /\ q \in Seq(Recorded)
  <2>1. "geofence_entered" \in EventTypes /\ "geofence_exited" \in EventTypes
    BY DEF EventTypes
  <2> QED BY <1>1, <2>1, PerFence
<1> HIDE DEF entered, exited
<1>7. Len(p) = Len(entered) /\ Len(q) = Len(exited)
  <2>1. DOMAIN p = 1 .. Len(entered) /\ DOMAIN q = 1 .. Len(exited)
    OBVIOUS
  <2> HIDE DEF p, q
  <2>2. Len(p) \in Nat /\ DOMAIN p = 1 .. Len(p) /\ Len(q) \in Nat /\ DOMAIN q = 1 .. Len(q)
    BY <1>6, LenProperties
  <2> QED BY <1>4, <1>5, <2>1, <2>2
<1>8. ASSUME NEW n \in 1 .. Len(entered)
      PROVE  p[n].type = "geofence_entered" /\ (Crosses(p[n], f) <=> f = entered[n])
  <2>1. p[n] = Event(cmd.client, cmd, "geofence_entered", {entered[n]})
    OBVIOUS
  <2>2. p[n].type = "geofence_entered" /\ p[n].fences = {entered[n]}
    BY <2>1 DEF Event
  <2> HIDE DEF p
  <2> QED BY <2>2 DEF Crosses
<1>9. ASSUME NEW n \in 1 .. Len(exited)
      PROVE  q[n].type = "geofence_exited" /\ (Crosses(q[n], f) <=> f = exited[n])
  <2>1. q[n] = Event(cmd.client, cmd, "geofence_exited", {exited[n]})
    OBVIOUS
  <2>2. q[n].type = "geofence_exited" /\ q[n].fences = {exited[n]}
    BY <2>1 DEF Event
  <2> HIDE DEF q
  <2> QED BY <2>2 DEF Crosses
<1> HIDE DEF p, q
<1> DEFINE b == p \o q
<1>10. \A n \in 1 .. Len(b) : \/ n \in 1 .. Len(p) /\ b[n] = p[n]
                              \/ /\ n - Len(p) \in 1 .. Len(q)
                                 /\ b[n] = q[n - Len(p)]
  BY <1>6, Joined
<1> HIDE DEF b
<1>11. ASSUME NEW n \in 1 .. Len(b), Crosses(b[n], f)
       PROVE  \/ /\ n \in 1 .. Len(entered) /\ f = entered[n] /\ b[n].type = "geofence_entered"
                 /\ f \notin s.inside
              \/ /\ n - Len(p) \in 1 .. Len(exited) /\ f = exited[n - Len(p)] /\ b[n].type = "geofence_exited"
                 /\ f \in s.inside
  <2>1. CASE n \in 1 .. Len(p) /\ b[n] = p[n]
    BY <1>1, <1>4, <1>7, <1>8, <1>11, <2>1
  <2>2. CASE n - Len(p) \in 1 .. Len(q) /\ b[n] = q[n - Len(p)]
    <3> DEFINE m == n - Len(p)
    <3> HIDE DEF m
    <3>1. m \in 1 .. Len(exited) /\ b[n] = q[m]
      BY <1>7, <2>2 DEF m
    <3>2. f = exited[m] /\ b[n].type = "geofence_exited" /\ f \in X
      BY <1>5, <1>9, <1>11, <3>1
    <3> QED BY <1>1, <3>1, <3>2 DEF m
  <2> QED BY <1>10, <2>1, <2>2
<1>12. ASSUME NEW j \in 1 .. Len(b), Crosses(b[j], f)
       PROVE  /\ b[j].type = "geofence_entered" <=> f \notin s.inside
              /\ \A i \in 1 .. Len(b) : Crosses(b[i], f) => i = j
  <2>1. b[j].type = "geofence_entered" <=> f \notin s.inside
    BY <1>11, <1>12
  <2>2. ASSUME NEW i \in 1 .. Len(b), Crosses(b[i], f) PROVE i = j
    <3>1. CASE f \notin s.inside
      <4>1. i \in 1 .. Len(entered) /\ f = entered[i] /\ j \in 1 .. Len(entered) /\ f = entered[j]
        BY <1>11, <1>12, <2>2, <3>1
      <4> QED BY <1>4, <4>1
    <3>2. CASE f \in s.inside
      <4>1. /\ i - Len(p) \in 1 .. Len(exited) /\ f = exited[i - Len(p)]
            /\ j - Len(p) \in 1 .. Len(exited) /\ f = exited[j - Len(p)]
        BY <1>11, <1>12, <2>2, <3>2
      <4>2. i - Len(p) = j - Len(p)
        BY <1>5, <4>1
      <4>3. Len(p) \in Nat /\ i \in Int /\ j \in Int
        <5>1. Len(b) \in Nat /\ Len(p) \in Nat
          BY <1>6, Joined DEF b
        <5> QED BY <5>1
      <4> QED BY <4>2, <4>3
    <3> QED BY <3>1, <3>2
  <2> QED BY <2>1, <2>2
<1> QED BY <1>2, <1>12 DEF Judged, b

\* A single event of another type crosses nothing.
LEMMA OneJudged ==
  ASSUME workload \in Workloads, NEW cmd \in Commands, NEW type \in EventTypes,
         type \notin {"geofence_entered", "geofence_exited"}, NEW s, NEW f
  PROVE  \A n \in 1 .. Len(One(cmd, type)) : ~Crosses(One(cmd, type)[n], f)
BY OneTyped DEF Crosses

LEMMA DecidedJudged ==
  ASSUME workload \in Workloads, NEW cmd \in Commands, NEW s, NEW f
  PROVE  Judged(Decided("vehicle", cmd, s), f, s)
<1> DEFINE es == VehicleEvents(cmd, s)
<1>1. cmd.type \in CommandTypes
  BY CommandTyped
<1>2. Decided("vehicle", cmd, s) = es
  BY DEF Decided
<1>3. Judged(<<>>, f, s)
  BY DEF Judged
<1>4. ASSUME NEW type \in EventTypes, type \notin {"geofence_entered", "geofence_exited"}
      PROVE  Judged(One(cmd, type), f, s)
  <2>1. \A n \in 1 .. Len(One(cmd, type)) : ~Crosses(One(cmd, type)[n], f)
    BY <1>4, OneJudged
  <2> QED BY <2>1 DEF Judged
<1>5. CASE cmd.type = "publish_location"
  <2> DEFINE p == One(cmd, "location_update")
             q == Crossings(cmd, s)
             b == p \o q
  <2>1. "location_update" \in EventTypes
    BY DEF EventTypes
  <2>2. p \in Seq(Recorded) /\ q \in Seq(Recorded)
    BY <2>1, OneTyped, CrossingsTyped
  <2>3. \A n \in 1 .. Len(p) : ~Crosses(p[n], f)
    BY <2>1, OneJudged
  <2>4. Judged(q, f, s)
    BY CrossingsJudged
  <2>5. es = b
    BY <1>5 DEF VehicleEvents
  <2> HIDE DEF p, q
  <2>6. /\ Len(p) \in Nat /\ Len(b) \in Nat
        /\ \A n \in 1 .. Len(b) : \/ n \in 1 .. Len(p) /\ b[n] = p[n]
                                  \/ /\ n - Len(p) \in 1 .. Len(q)
                                     /\ b[n] = q[n - Len(p)]
    BY <2>2, Joined, LenProperties
  <2> HIDE DEF b
  <2>7. ASSUME NEW n \in 1 .. Len(b), Crosses(b[n], f)
        PROVE  n - Len(p) \in 1 .. Len(q) /\ b[n] = q[n - Len(p)] /\ n \in Int
    BY <2>3, <2>6, <2>7
  <2>8. ASSUME NEW j \in 1 .. Len(b), Crosses(b[j], f)
        PROVE  /\ b[j].type = "geofence_entered" <=> f \notin s.inside
               /\ \A i \in 1 .. Len(b) : Crosses(b[i], f) => i = j
    <3>1. j - Len(p) \in 1 .. Len(q) /\ b[j] = q[j - Len(p)] /\ j \in Int
      BY <2>7, <2>8
    <3>2. /\ b[j].type = "geofence_entered" <=> f \notin s.inside
          /\ \A i \in 1 .. Len(q) : Crosses(q[i], f) => i = j - Len(p)
      BY <2>4, <2>8, <3>1 DEF Judged
    <3>3. ASSUME NEW i \in 1 .. Len(b), Crosses(b[i], f) PROVE i = j
      <4>1. i - Len(p) \in 1 .. Len(q) /\ b[i] = q[i - Len(p)] /\ i \in Int
        BY <2>7, <3>3
      <4>2. i - Len(p) = j - Len(p)
        BY <3>2, <3>3, <4>1
      <4> QED BY <2>6, <3>1, <4>1, <4>2
    <3> QED BY <3>2, <3>3
  <2> QED BY <1>2, <2>5, <2>8 DEF Judged
<1>6. CASE cmd.type = "join_room"
  <2>1. es = <<>> \/ es = One(cmd, "room_joined")
    BY <1>6 DEF VehicleEvents
  <2>2. "room_joined" \in EventTypes
    BY DEF EventTypes
  <2> QED BY <1>2, <1>3, <1>4, <2>1, <2>2
<1>7. CASE cmd.type = "leave_room"
  <2>1. es = <<>> \/ es = One(cmd, "room_left")
    BY <1>7 DEF VehicleEvents
  <2>2. "room_left" \in EventTypes
    BY DEF EventTypes
  <2> QED BY <1>2, <1>3, <1>4, <2>1, <2>2
<1>8. CASE cmd.type = "acknowledge"
  <2>1. es = <<>> \/ es = One(cmd, "message_ack")
    BY <1>8 DEF VehicleEvents
  <2>2. "message_ack" \in EventTypes
    BY DEF EventTypes
  <2> QED BY <1>2, <1>3, <1>4, <2>1, <2>2
<1>9. CASE cmd.type = "negative_acknowledge"
  <2>1. es = One(cmd, "message_nack")
    BY <1>9 DEF VehicleEvents
  <2>2. "message_nack" \in EventTypes
    BY DEF EventTypes
  <2> QED BY <1>2, <1>4, <2>1, <2>2
<1>10. CASE cmd.type = "update_geofence"
  <2>1. es = One(cmd, "geofence_updated")
    BY <1>10 DEF VehicleEvents
  <2>2. "geofence_updated" \in EventTypes
    BY DEF EventTypes
  <2> QED BY <1>2, <1>4, <2>1, <2>2
<1>11. CASE cmd.type = "resume_session"
  <2>1. es = One(cmd, "session_resumed")
    BY <1>11 DEF VehicleEvents
  <2>2. "session_resumed" \in EventTypes
    BY DEF EventTypes
  <2> QED BY <1>2, <1>4, <2>1, <2>2
<1> QED BY <1>1, <1>5, <1>6, <1>7, <1>8, <1>9, <1>10, <1>11 DEF CommandTypes

\* The event of a room crosses nothing.
LEMMA RoomJudged ==
  ASSUME NEW cmd, NEW s, NEW f
  PROVE  Judged(Decided("room", cmd, s), f, s)
<1> DEFINE es == Decided("room", cmd, s)
<1>1. Len(es) = 1 /\ es[1].type \in {"room_joined", "room_left"}
  BY DEF Decided, RoomEvents, Event
<1> HIDE DEF es
<1>2. \A n \in 1 .. Len(es) : ~Crosses(es[n], f)
  BY <1>1 DEF Crosses
<1> QED BY <1>2 DEF Judged, es

\* Numbering leaves the rest of an event alone.
LEMMA NumberedJudged ==
  ASSUME workload \in Workloads, NEW es \in Seq(Recorded), NEW base \in Nat, NEW f, NEW s, Judged(es, f, s)
  PROVE  Judged(Numbered(es, base), f, s)
<1> DEFINE b == Numbered(es, base)
<1>1. Len(es) \in Nat /\ Len(b) = Len(es) /\ \A n \in 1 .. Len(es) : es[n] \in Recorded
  BY NumberedTyped, LenProperties, ElementOfSeq
<1>2. b = [n \in 1 .. Len(es) |-> [es[n] EXCEPT !.sequence = base + n]]
  BY DEF Numbered
<1> HIDE DEF b
<1>3. ASSUME NEW n \in 1 .. Len(es) PROVE b[n].type = es[n].type /\ b[n].fences = es[n].fences
  <2>1. b[n] = [es[n] EXCEPT !.sequence = base + n]
    BY <1>2
  <2> QED BY <1>1, <2>1 DEF Recorded
<1>4. \A n \in 1 .. Len(es) : Crosses(b[n], f) <=> Crosses(es[n], f)
  BY <1>3 DEF Crosses
<1> QED BY <1>1, <1>3, <1>4 DEF Judged, b

\* Every crossing goes the other way than the one before it.
Alternates(q, f) == \A n \in At(q, f, Len(q)) :
    q[n].type = "geofence_entered" <=> ~Entered(q, f, n - 1)

\* The first events of a log are those of a longer one.
LEMMA EnteredPrefix ==
  ASSUME NEW q, NEW p, NEW k \in Nat, \A n \in 1 .. k : p[n] = q[n], NEW f
  PROVE  At(p, f, k) = At(q, f, k) /\ (Entered(p, f, k) <=> Entered(q, f, k))
<1> DEFINE t == At(q, f, k)
<1>1. At(p, f, k) = t
  BY DEF At
<1>2. t \in SUBSET (1 .. k)
  BY DEF At
<1> HIDE DEF t
<1>3. ASSUME t # {} PROVE p[Max(t)] = q[Max(t)]
  <2>1. Max(t) \in t
    BY <1>2, <1>3, Greatest
  <2> QED BY <1>2, <2>1
<1> QED BY <1>1, <1>3 DEF Entered, t

LEMMA AlternatesAfter ==
  ASSUME NEW R, NEW q \in Seq(R), NEW b \in Seq(R), NEW f, NEW s, Alternates(q, f), Judged(b, f, s),
         f \in s.inside <=> Entered(q, f, Len(q))
  PROVE  Alternates(q \o b, f)
<1> DEFINE p == q \o b
<1>1. Len(q) \in Nat /\ Len(b) \in Nat
  BY LenProperties
<1>2. /\ p \in Seq(R) /\ Len(p) = Len(q) + Len(b)
      /\ \A n \in 1 .. Len(q) + Len(b) : p[n] = IF n <= Len(q) THEN q[n] ELSE b[n - Len(q)]
  BY ConcatProperties
<1> HIDE DEF p
<1>3. \A n \in 1 .. Len(q) : p[n] = q[n]
  BY <1>1, <1>2
<1>4. ASSUME NEW n \in At(p, f, Len(p))
      PROVE  p[n].type = "geofence_entered" <=> ~Entered(p, f, n - 1)
  <2>1. n \in 1 .. Len(p) /\ Crosses(p[n], f)
    BY DEF At
  <2>2. CASE n <= Len(q)
    <3>1. n \in 1 .. Len(q) /\ n - 1 \in Nat /\ p[n] = q[n] /\ \A m \in 1 .. n - 1 : p[m] = q[m]
      BY <1>1, <1>2, <1>3, <2>1, <2>2
    <3>2. n \in At(q, f, Len(q))
      BY <2>1, <3>1 DEF At
    <3>3. q[n].type = "geofence_entered" <=> ~Entered(q, f, n - 1)
      BY <3>2 DEF Alternates
    <3>4. Entered(p, f, n - 1) <=> Entered(q, f, n - 1)
      BY <3>1, EnteredPrefix
    <3> QED BY <3>1, <3>3, <3>4
  <2>3. CASE ~(n <= Len(q))
    <3> DEFINE j == n - Len(q)
    <3>1. j \in 1 .. Len(b) /\ p[n] = b[j] /\ n - 1 \in Nat /\ Len(q) <= n - 1
      BY <1>1, <1>2, <2>1, <2>3
    <3>2. b[j].type = "geofence_entered" <=> f \notin s.inside
      BY <2>1, <3>1 DEF Judged
    <3>3. ASSUME NEW m \in 1 .. n - 1, Crosses(p[m], f) PROVE m \in 1 .. Len(q)
      <4>1. CASE m <= Len(q)
        BY <1>1, <4>1
      <4>2. CASE ~(m <= Len(q))
        <5> DEFINE i == m - Len(q)
        <5>1. i \in 1 .. Len(b) /\ p[m] = b[i] /\ i # j
          BY <1>1, <1>2, <2>1, <4>2
        <5>2. i = j
          <6> HIDE DEF i, j
          <6> QED BY <2>1, <3>1, <3>3, <5>1 DEF Judged
        <5> QED BY <5>1, <5>2
      <4> QED BY <4>1, <4>2
    <3>4. At(p, f, n - 1) = At(p, f, Len(q))
      <4>1. \A m \in 1 .. Len(q) : m \in 1 .. n - 1
        BY <1>1, <3>1
      <4> QED BY <3>3, <4>1 DEF At
    <3>5. Entered(p, f, n - 1) <=> Entered(p, f, Len(q))
      BY <3>4 DEF Entered
    <3>6. Entered(p, f, Len(q)) <=> Entered(q, f, Len(q))
      BY <1>1, <1>3, EnteredPrefix
    <3> QED BY <3>1, <3>2, <3>5, <3>6
  <2> QED BY <2>2, <2>3
<1> QED BY <1>4 DEF Alternates, p

-----------------------------------------------------------------------------
(* The alternation as an invariant. *)

Drawn == Guarded => \A c \in Clients \ Mixed, f \in Fences : Alternates(log[c], f)

LEMMA DrawnAfter ==
  ASSUME workload' = workload,
         Guarded => \A c \in Clients \ Mixed, f \in Fences : Alternates(log'[c], f)
  PROVE  Drawn'
<1>1. (Guarded' <=> Guarded) /\ Mixed' = Mixed
  BY DEF Dispatches, Guarded, Transactional, Mixed, Commands
<1>3. ASSUME NEW c, NEW f PROVE Alternates(log[c], f)' <=> Alternates(log'[c], f)
  BY DEF Alternates, At, Entered, Crosses
<1> QED BY <1>1, <1>3 DEF Drawn

LEMMA StoredDrawn ==
  ASSUME Inv, Inv', Sound, Drawn, NEW d \in Dispatches, dispatches[d].pc \in Staged, Stored(d),
         workload' = workload,
         Guarded => dispatches[d].sequence = Len(log[dispatches[d].aggregate])
  PROVE  Drawn'
<1> DEFINE it == dispatches[d]
           a == it.aggregate
           staged == it.events.staged
           batch == Batch(d)
<1>1. /\ a \in Aggregates /\ it.sequence \in Nat /\ batch \in Seq(Recorded) /\ Len(batch) \in Nat
      /\ log'[a] = log[a] \o batch
      /\ \A b \in Aggregates : b # a => log'[b] = log[b]
      /\ Guarded => \A b \in Aggregates : Dense(log[b]) /\ Dense(log'[b])
  BY Appended
<1>2. it.cmd \in Commands /\ OfKind(it) /\ staged \in Seq(Recorded)
  BY StagedFacts
<1>3. workload \in Workloads
  BY DEF Inv, Types
<1>4. batch = Numbered(staged, it.sequence)
  BY DEF Batch
<1>5. dispatches[d].pc \in Loaded
  BY DEF Staged, Loaded
<1>6. log[a] \in Seq(Recorded)
  BY <1>1, Sizes DEF Inv
<1> HIDE DEF batch
<1>8. ASSUME Guarded, NEW c \in Clients \ Mixed, NEW f \in Fences PROVE Alternates(log'[c], f)
  <2>1. c \in Aggregates
    BY DEF Aggregates
  <2>2. Alternates(log[c], f)
    BY <1>8 DEF Drawn
  <2>3. CASE c # a
    <3>1. log'[c] = log[c]
      BY <1>1, <2>1, <2>3
    <3> QED BY <2>2, <3>1
  <2>4. CASE c = a
    <3>1. it.kind = KindOf(a) /\ it.kind \in {"vehicle", "room"}
      BY <1>2, <2>4, KindIs
    <3>2. /\ Matches(it, a, log[a]) /\ staged = Decided(it.kind, it.cmd, it.state) /\ Dense(log[a])
      BY <1>1, <1>5, <1>8, SoundParts
    <3>3. it.state = Led(it.kind, log[a], Len(log[a]))
      BY <1>8, <2>4, <3>2 DEF Matches
    <3>4. \E s : Judged(staged, f, s) /\ (f \in s.inside <=> Entered(log[a], f, Len(log[a])))
      <4>1. CASE it.kind = "vehicle"
        <5>1. Judged(staged, f, it.state)
          BY <1>2, <1>3, <3>2, <4>1, DecidedJudged
        <5>2. OfVehicle(log[a])
          <6>1. \A n \in 1 .. Len(log[a]) : log[a][n] \in Recorded
            BY <1>6, ElementOfSeq
          <6> QED BY <6>1 DEF OfVehicle, Recorded
        <5>3. f \in Led("vehicle", log[a], Len(log[a])).inside <=> Entered(log[a], f, Len(log[a]))
          BY <1>6, <3>2, <5>2, LedInside
        <5> QED BY <3>3, <4>1, <5>1, <5>3
      <4>2. CASE it.kind = "room"
        <5> DEFINE s == [inside |-> IF Entered(log[a], f, Len(log[a])) THEN {f} ELSE {}]
        <5>1. f \in s.inside <=> Entered(log[a], f, Len(log[a]))
          OBVIOUS
        <5> HIDE DEF s
        <5>2. staged = Decided("room", it.cmd, s)
          BY <3>2, <4>2 DEF Decided
        <5>3. Judged(staged, f, s)
          BY <5>2, RoomJudged
        <5> QED BY <5>1, <5>3
      <4> QED BY <3>1, <4>1, <4>2
    <3>5. PICK s : Judged(staged, f, s) /\ (f \in s.inside <=> Entered(log[a], f, Len(log[a])))
      BY <3>4
    <3>6. Judged(batch, f, s)
      BY <1>1, <1>2, <1>3, <1>4, <3>5, NumberedJudged
    <3>8. Alternates(log[a] \o batch, f)
      BY <1>1, <1>6, <2>2, <2>4, <3>5, <3>6, AlternatesAfter
    <3> QED BY <1>1, <2>4, <3>8
  <2> QED BY <2>3, <2>4
<1> QED BY <1>8, DrawnAfter

\* Only an accepted append changes the log.
LEMMA OnlyAppends ==
  ASSUME Inv, [Next]_vars
  PROVE  \/ UNCHANGED <<workload, log>>
         \/ \E d \in Dispatches : /\ Stored(d) /\ dispatches[d].pc \in Staged /\ workload' = workload
                                  /\ Guarded => dispatches[d].sequence = Len(log[dispatches[d].aggregate])
<1>1. CASE UNCHANGED vars
  BY <1>1 DEF vars
<1>7. \A d : Reject(d) => UNCHANGED <<workload, log>>
  BY DEF Reject, Rejected
<1>2. ASSUME NEW d \in Dispatches, Append1(d)
      PROVE  \/ UNCHANGED <<workload, log>>
             \/ /\ Stored(d) /\ dispatches[d].pc \in Staged /\ workload' = workload
                /\ Guarded => dispatches[d].sequence = Len(log[dispatches[d].aggregate])
  <2>1. CASE Conflicts(dispatches[d].aggregate, dispatches[d].sequence)
    BY <1>2, <1>7, <2>1 DEF Append1
  <2>2. CASE ~Conflicts(dispatches[d].aggregate, dispatches[d].sequence)
    BY <1>2, <2>2, Accepted
  <2> QED BY <2>1, <2>2
<1>3. ASSUME NEW d \in Dispatches, Insert(d) \/ CommitUnanswered(d)
      PROVE  /\ Stored(d) /\ dispatches[d].pc \in Staged /\ workload' = workload
             /\ Guarded => dispatches[d].sequence = Len(log[dispatches[d].aggregate])
  BY <1>3, Accepted
<1>4. ASSUME NEW d \in Dispatches,
             ReadSnapshot(d) \/ ReadEvents(d) \/ CheckSequence(d) \/ Finish(d) \/ StatementFails(d)
      PROVE  UNCHANGED <<workload, log>>
  <2>1. CASE ReadSnapshot(d)
    BY <2>1 DEF ReadSnapshot
  <2>2. CASE ReadEvents(d)
    BY <2>2 DEF ReadEvents
  <2>3. CASE CheckSequence(d)
    BY <1>7, <2>3 DEF CheckSequence
  <2>4. CASE Finish(d)
    BY <2>4 DEF Finish
  <2>5. CASE StatementFails(d)
    BY <1>7, <2>5 DEF StatementFails
  <2> QED BY <1>4, <2>1, <2>2, <2>3, <2>4, <2>5
<1>5. ASSUME NEW d \in Dispatches, NEW cmd \in Commands, Dispatch(d, cmd) PROVE UNCHANGED <<workload, log>>
  BY <1>5 DEF Dispatch
<1>6. ASSUME NEW a \in Aggregates, SnapshotWritten(a) PROVE UNCHANGED <<workload, log>>
  BY <1>6 DEF SnapshotWritten
<1> QED BY <1>1, <1>2, <1>3, <1>4, <1>5, <1>6 DEF Next

LEMMA NextDrawn ==
  ASSUME Inv, Inv', Sound, Drawn, [Next]_vars
  PROVE  Drawn'
<1>1. CASE UNCHANGED <<workload, log>>
  BY <1>1, DrawnAfter DEF Drawn
<1>2. ASSUME NEW d \in Dispatches, Stored(d), dispatches[d].pc \in Staged, workload' = workload,
             Guarded => dispatches[d].sequence = Len(log[dispatches[d].aggregate])
      PROVE  Drawn'
  BY <1>2, StoredDrawn
<1> QED BY <1>1, <1>2, OnlyAppends

\* For every workload, set of fences and interleaving: in the log of a vehicle whose id is
\* not also that of a room the entries and exits of each fence alternate, beginning with an
\* entry.
THEOREM AlwaysAlternate == Spec => []CrossingsAlternate
<1>1. Init => Drawn
  <2>1. SUFFICES ASSUME Init PROVE Drawn
    OBVIOUS
  <2>2. \A a \in Aggregates : log[a] = <<>>
    BY <2>1 DEF Init
  <2>3. \A a \in Aggregates : Len(log[a]) = 0
    BY <2>2
  <2>5. \A c \in Clients, f \in Fences : Alternates(log[c], f)
    BY <2>3 DEF Alternates, At, Aggregates
  <2> QED BY <2>5 DEF Drawn
<1>2. Inv /\ Inv' /\ Sound /\ Drawn /\ [Next]_vars => Drawn'
  BY NextDrawn
<1>3. ASSUME Inv, Drawn PROVE CrossingsAlternate
  <2> DEFINE at(c, f) == {n \in 1 .. Len(log[c]) : Crosses(log[c][n], f)}
             Before(c, f, n) == {m \in at(c, f) : m < n}
  <2>1. ASSUME Guarded, NEW c \in Clients \ Mixed, NEW f \in Fences, NEW n \in at(c, f)
        PROVE  log[c][n].type = "geofence_entered" <=>
                  Before(c, f, n) = {} \/ log[c][Max(Before(c, f, n))].type = "geofence_exited"
    <3> DEFINE t == Before(c, f, n)
    <3>1. Alternates(log[c], f) /\ n \in At(log[c], f, Len(log[c]))
      BY <1>3, <2>1 DEF Drawn, At
    <3>2. log[c][n].type = "geofence_entered" <=> ~Entered(log[c], f, n - 1)
      BY <3>1 DEF Alternates
    <3>3. Len(log[c]) \in Nat
      BY <1>3, Sizes DEF Inv, Aggregates
    <3>4. t = At(log[c], f, n - 1)
      <4>1. \A m : m \in 1 .. Len(log[c]) /\ m < n <=> m \in 1 .. n - 1
        BY <3>3
      <4> QED BY <4>1 DEF At
    <3>5. t \in SUBSET (1 .. Len(log[c])) /\ \A m \in t : Crosses(log[c][m], f)
      OBVIOUS
    <3> HIDE DEF t
    <3>6. ASSUME t # {} PROVE log[c][Max(t)].type \in {"geofence_entered", "geofence_exited"}
      <4>1. Max(t) \in t
        BY <3>3, <3>5, <3>6, Greatest
      <4> QED BY <3>5, <4>1 DEF Crosses
    <3>7. Entered(log[c], f, n - 1) <=> t # {} /\ log[c][Max(t)].type = "geofence_entered"
      BY <3>4 DEF Entered
    <3>8. ~Entered(log[c], f, n - 1) <=> t = {} \/ log[c][Max(t)].type = "geofence_exited"
      BY <3>6, <3>7
    <3> QED BY <3>2, <3>8 DEF t
  <2> QED BY <2>1 DEF CrossingsAlternate
<1>4. Inv /\ Drawn => CrossingsAlternate
  BY <1>3
<1> QED BY <1>1, <1>2, <1>4, SoundAlways, PTL DEF Spec

===============================================================================

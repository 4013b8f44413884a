-------------------------- MODULE ProjectionsProofs --------------------------
(***************************************************************************)
(* Proofs about the read side, for every log, sink and number of calls:    *)
(* an event marked as processed has had its effect, the newest value wins, *)
(* nothing is applied twice, and the two read models of membership agree.  *)
(* The first needs what calls are about to mark; the others also what a    *)
(* single call has read and marked so far.                                 *)
(***************************************************************************)
EXTENDS Projections, FiniteSetTheorems, SequenceTheorems, TLAPS

IsSequence(q) == \E S : q \in Seq(S)

\* The shapes that the steps rely on; a call is at the room counter in its last projection only.
Shape ==
    /\ workload \in Workloads
    /\ roomSeq \in [Rooms -> Nat]
    /\ IsSequence(violations)
    /\ runs = [s \in Slots |-> runs[s]]
    /\ \A s \in Slots :
         /\ DOMAIN runs[s] = {"todo", "phase", "k", "read"}
         /\ runs[s].k \in 1 .. 4
         /\ runs[s].phase = "bump" => runs[s].k = 4

\* Events that a call has handled in projection k and is about to mark.
AtMark(k) == {e \in Log : \E s \in Slots : runs[s].phase = "mark" /\ runs[s].k = k /\ Head(runs[s].todo) = e}

Bumped(r) == {e \in Log : /\ Counted(e) /\ e.room = r
                          /\ <<"sequence", e>> \in processed \/ e \in AtMark(4)}

CounterCovers == \A r \in Rooms : roomSeq[r] >= Cardinality(Bumped(r))

ViolationsCover ==
    \A e \in Log : /\ Crossing(e)
                   /\ <<"geofence_violations", e>> \in processed \/ e \in AtMark(3)
                   => Contains(violations, e.time)

\* The inductive invariant: it also covers what calls are about to mark.
AppliedInv == Shape /\ CounterCovers /\ ViolationsCover

\* The log of a workload is finite.
LEMMA LogFinite ==
    ASSUME Shape PROVE IsFiniteSet(Log)
BY WorkloadAssumption DEF Shape, Log

\* So the events that a counter has to cover can be counted.
LEMMA BumpedFinite ==
    ASSUME Shape, NEW r PROVE IsFiniteSet(Bumped(r)) /\ Cardinality(Bumped(r)) \in Nat
<1>1. Bumped(r) \subseteq Log
  BY DEF Bumped
<1>2. QED
  BY <1>1, LogFinite, FS_Subset, FS_CardinalityType

\* A run as a record of its four parts.
IsRun(run) ==
    /\ DOMAIN run = {"todo", "phase", "k", "read"}
    /\ run.k \in 1 .. 4
    /\ run.phase = "bump" => run.k = 4

\* A step of one call replaces its run and nothing else in runs.
LEMMA RunReplaced ==
    ASSUME Shape, UNCHANGED workload, NEW s \in Slots, NEW run,
           runs' = [runs EXCEPT ![s] = run]
    PROVE  /\ Slots' = Slots /\ Log' = Log /\ runs'[s] = run
           /\ \A t \in Slots : t # s => runs'[t] = runs[t]
           /\ runs' = [t \in Slots' |-> runs'[t]]
BY DEF Shape, Slots, Log

\* A step of one call that leaves a well-formed run keeps the shapes.
LEMMA ShapeKept ==
    ASSUME Shape, UNCHANGED workload, NEW s \in Slots, NEW run,
           runs' = [runs EXCEPT ![s] = run], IsRun(run),
           roomSeq' \in [Rooms -> Nat], IsSequence(violations')
    PROVE  Shape'
<1>1. /\ Slots' = Slots /\ runs'[s] = run
      /\ \A t \in Slots : t # s => runs'[t] = runs[t]
      /\ runs' = [t \in Slots' |-> runs'[t]]
  BY RunReplaced
<1>2. \A t \in Slots : IsRun(runs'[t])
  BY <1>1 DEF Shape, IsRun
<1>3. workload' \in Workloads /\ IsSequence(violations)'
  BY DEF Shape, IsSequence
<1>4. QED
  BY <1>1, <1>2, <1>3 DEF Shape, IsRun

\* A call that is not about to mark anything after its step.
LEMMA NotAtMark ==
    ASSUME Shape, UNCHANGED workload, NEW s \in Slots, NEW run,
           runs' = [runs EXCEPT ![s] = run], run.phase # "mark", NEW k
    PROVE  AtMark(k)' \subseteq AtMark(k)
BY RunReplaced DEF AtMark

\* Nothing becomes marked or about to be marked, and counters and violations stay.
LEMMA CoverKept ==
    ASSUME AppliedInv, Shape', UNCHANGED <<workload, processed, roomSeq, violations>>,
           AtMark(3)' \subseteq AtMark(3), AtMark(4)' \subseteq AtMark(4)
    PROVE  AppliedInv'
<1>1. Log' = Log
  BY DEF Log
<1>2. CounterCovers'
  <2>1. SUFFICES ASSUME NEW r \in Rooms PROVE roomSeq'[r] >= Cardinality(Bumped(r)')
    BY DEF CounterCovers
  <2>2. Bumped(r)' \subseteq Bumped(r)
    BY <1>1 DEF Bumped
  <2>3. IsFiniteSet(Bumped(r)) /\ Cardinality(Bumped(r)) \in Nat
    BY BumpedFinite DEF AppliedInv
  <2>4. /\ Cardinality(Bumped(r)') <= Cardinality(Bumped(r))
        /\ Cardinality(Bumped(r)') \in Nat
    BY <2>2, <2>3, FS_Subset, FS_CardinalityType
  <2>5. roomSeq'[r] \in Nat /\ roomSeq'[r] >= Cardinality(Bumped(r))
    BY DEF AppliedInv, CounterCovers, Shape
  <2>6. QED
    BY <2>3, <2>4, <2>5
<1>3. ViolationsCover'
  BY <1>1 DEF AppliedInv, ViolationsCover, Contains
<1>4. QED
  BY <1>2, <1>3 DEF AppliedInv

\* The steps of a call that mark nothing and after which it is not about to mark.
LEMMA PlainStep ==
    ASSUME AppliedInv, NEW s \in Slots, NEW run, runs' = [runs EXCEPT ![s] = run],
           IsRun(run), run.phase # "mark", UNCHANGED <<workload, processed, roomSeq, violations>>
    PROVE  AppliedInv'
<1>1. Shape /\ roomSeq' \in [Rooms -> Nat] /\ IsSequence(violations')
  BY DEF AppliedInv, Shape
<1>2. Shape'
  BY <1>1, ShapeKept
<1>3. AtMark(3)' \subseteq AtMark(3) /\ AtMark(4)' \subseteq AtMark(4)
  BY <1>1, NotAtMark
<1>4. QED
  BY <1>2, <1>3, CoverKept

\* With nothing marked and no call under way there is nothing to cover.
LEMMA InitApplied == Init => AppliedInv
<1> SUFFICES ASSUME Init PROVE AppliedInv
  OBVIOUS
<1>1. Shape
  <2>1. IsSequence(violations)
    <3>1. violations \in Seq({})
      BY DEF Init, EmptySink
    <3>2. QED
      BY <3>1 DEF IsSequence
  <2>2. /\ workload \in Workloads /\ roomSeq \in [Rooms -> Nat]
        /\ runs = [s \in Slots |-> Done]
    BY DEF Init, EmptySink
  <2>3. QED
    BY <2>1, <2>2 DEF Shape, Done
<1>2. \A k : AtMark(k) = {}
  BY DEF Init, AtMark, Done
<1>3. CounterCovers
  <2>1. SUFFICES ASSUME NEW r \in Rooms PROVE roomSeq[r] >= Cardinality(Bumped(r))
    BY DEF CounterCovers
  <2>2. Bumped(r) = {}
    BY <1>2 DEF Bumped, Init
  <2>3. roomSeq[r] = 0
    BY DEF Init, EmptySink
  <2>4. QED
    BY <2>2, <2>3, FS_EmptySet
<1>4. ViolationsCover
  BY <1>2 DEF ViolationsCover, Init
<1>5. QED
  BY <1>1, <1>3, <1>4 DEF AppliedInv

\* A run that goes to its next projection, or to its next event.
LEMMA AdvancedRun ==
    ASSUME Shape, NEW s \in Slots, Advances(s)
    PROVE  \E run : runs' = [runs EXCEPT ![s] = run] /\ IsRun(run) /\ run.phase # "mark"
<1>1. CASE runs[s].k < Len(Names)
  <2>1. runs[s].k \in 1 .. 3
    BY <1>1 DEF Shape, Names
  <2>2. DEFINE run == [runs[s] EXCEPT !.phase = "handle", !.k = @ + 1]
  <2>3. runs' = [runs EXCEPT ![s] = run]
    BY <1>1 DEF Advances, Shape
  <2>4. IsRun(run) /\ run.phase # "mark"
    BY <2>1 DEF Shape, IsRun
  <2>5. QED
    BY <2>3, <2>4
<1>2. CASE ~(runs[s].k < Len(Names))
  <2>1. DEFINE run == [Done EXCEPT !.todo = Tail(runs[s].todo)]
  <2>2. runs' = [runs EXCEPT ![s] = run]
    BY <1>2 DEF Advances, Leaves
  <2>3. IsRun(run) /\ run.phase # "mark"
    BY DEF Done, IsRun
  <2>4. QED
    BY <2>2, <2>3
<1>3. QED
  BY <1>1, <1>2

\* A call that starts has only its batch to do.
LEMMA ProcessEventsStep ==
    ASSUME AppliedInv, NEW s \in Slots, NEW batch, ProcessEvents(s, batch) PROVE AppliedInv'
<1>1. PICK todo : runs' = [runs EXCEPT ![s].todo = todo]
  BY DEF ProcessEvents
<1>2. DEFINE run == [runs[s] EXCEPT !.todo = todo]
<1>3. runs' = [runs EXCEPT ![s] = run]
  BY <1>1 DEF AppliedInv, Shape
<1>0. runs[s] = Done
  BY DEF ProcessEvents
<1>4. IsRun(run) /\ run.phase # "mark"
  BY <1>0 DEF IsRun, Done
<1>5. UNCHANGED <<workload, processed, roomSeq, violations>>
  BY DEF ProcessEvents, sink
<1>6. QED
  BY <1>3, <1>4, <1>5, PlainStep

\* The look-up skips an event or goes on to read.
LEMMA CheckStep ==
    ASSUME AppliedInv, NEW s \in Slots, Check(s) PROVE AppliedInv'
<1>1. CASE IsProcessedByAll(Head(runs[s].todo))
  <2>1. DEFINE run == [Done EXCEPT !.todo = Tail(runs[s].todo)]
  <2>2. runs' = [runs EXCEPT ![s] = run] /\ UNCHANGED <<workload, processed, roomSeq, violations>>
    BY <1>1 DEF Check, Skip, Leaves, sink
  <2>3. IsRun(run) /\ run.phase # "mark"
    BY DEF Done, IsRun
  <2>4. QED
    BY <2>2, <2>3, PlainStep
<1>2. CASE ~IsProcessedByAll(Head(runs[s].todo))
  <2>1. DEFINE run == [runs[s] EXCEPT !.phase = "read"]
  <2>2. runs' = [runs EXCEPT ![s] = run] /\ UNCHANGED <<workload, processed, roomSeq, violations>>
    BY <1>2 DEF Check, sink, AppliedInv, Shape
  <2>3. IsRun(run) /\ run.phase # "mark"
    BY DEF AppliedInv, Shape, IsRun
  <2>4. QED
    BY <2>2, <2>3, PlainStep
<1>3. QED
  BY <1>1, <1>2

\* A look-up that throws gives the call up.
LEMMA CheckFailsStep ==
    ASSUME AppliedInv, NEW s \in Slots, CheckFails(s) PROVE AppliedInv'
<1>1. runs' = [runs EXCEPT ![s] = Done] /\ UNCHANGED <<workload, processed, roomSeq, violations>>
  BY DEF CheckFails, sink
<1>2. IsRun(Done) /\ Done.phase # "mark"
  BY DEF Done, IsRun
<1>3. QED
  BY <1>1, <1>2, PlainStep

\* Reading the vehicle row changes the call alone.
LEMMA ReadVehicleStep ==
    ASSUME AppliedInv, NEW s \in Slots, ReadVehicle(s) PROVE AppliedInv'
<1>1. DEFINE run == [runs[s] EXCEPT !.phase = "handle", !.read = vehicle[Head(runs[s].todo).client]]
<1>2. runs' = [runs EXCEPT ![s] = run] /\ UNCHANGED <<workload, processed, roomSeq, violations>>
  BY DEF ReadVehicle, sink, AppliedInv, Shape
<1>3. IsRun(run) /\ run.phase # "mark"
  BY DEF AppliedInv, Shape, IsRun
<1>4. QED
  BY <1>2, <1>3, PlainStep

\* A projection that throws goes on unmarked.
LEMMA HandleFailsStep ==
    ASSUME AppliedInv, NEW s \in Slots, HandleFails(s) PROVE AppliedInv'
<1>1. PICK run : runs' = [runs EXCEPT ![s] = run] /\ IsRun(run) /\ run.phase # "mark"
  BY AdvancedRun DEF HandleFails, AppliedInv
<1>2. UNCHANGED <<workload, processed, roomSeq, violations>>
  BY DEF HandleFails, sink
<1>3. QED
  BY <1>1, <1>2, PlainStep

\* A handled event is about to be marked in projection k, where it was not before.
LEMMA NowAtMark ==
    ASSUME Shape, UNCHANGED workload, NEW s \in Slots, NEW run,
           runs' = [runs EXCEPT ![s] = run], NEW k
    PROVE  /\ AtMark(k)' \subseteq AtMark(k) \cup {Head(run.todo)}
           /\ run.k # k => AtMark(k)' \subseteq AtMark(k)
BY RunReplaced DEF AtMark

\* Appending keeps a list a list and what it contains.
LEMMA AppendContains ==
    ASSUME NEW q, NEW x, IsSequence(q)
    PROVE  /\ IsSequence(Append(q, x))
           /\ Contains(Append(q, x), x)
           /\ \A y : Contains(q, y) => Contains(Append(q, x), y)
<1>1. PICK S : q \in Seq(S)
  BY DEF IsSequence
<1>2. q \in Seq(S \cup {x})
  BY <1>1
<1>3. /\ Append(q, x) \in Seq(S \cup {x}) /\ Len(q) \in Nat
      /\ Len(Append(q, x)) = Len(q) + 1
      /\ \A i \in 1 .. Len(q) : Append(q, x)[i] = q[i]
      /\ Append(q, x)[Len(q) + 1] = x
  BY <1>2
<1>4. QED
  BY <1>3 DEF IsSequence, Contains

\* The violations keep what they hold and take in the crossing.
LEMMA ViolationsGrow ==
    ASSUME NEW e, IsSequence(violations)
    PROVE  /\ IsSequence(ViolationsAfter(e))
           /\ Crossing(e) => Contains(ViolationsAfter(e), e.time)
           /\ \A y : Contains(violations, y) => Contains(ViolationsAfter(e), y)
<1>1. CASE ~Crossing(e) \/ (Durable /\ Contains(violations, e.time))
  BY <1>1 DEF ViolationsAfter
<1>2. CASE ~(~Crossing(e) \/ (Durable /\ Contains(violations, e.time)))
  <2>1. ViolationsAfter(e) = Append(violations, e.time)
    BY <1>2 DEF ViolationsAfter
  <2>2. QED
    BY <2>1, AppendContains
<1>3. QED
  BY <1>1, <1>2

\* A handled crossing is in the violations before the call may mark it; a counted event still
\* has its counter to come.
LEMMA HandleStep ==
    ASSUME AppliedInv, NEW s \in Slots, Handle(s) PROVE AppliedInv'
<1> DEFINE e == Head(runs[s].todo)
           run == [runs[s] EXCEPT !.phase = IF Names[runs[s].k] = "sequence" /\ Counted(e)
                                            THEN "bump" ELSE "mark"]
<1>1. Shape
  BY DEF AppliedInv
<1>2. /\ runs[s].k \in 1 .. 4 /\ DOMAIN runs[s] = {"todo", "phase", "k", "read"}
      /\ IsSequence(violations)
      /\ Names[runs[s].k] = "sequence" <=> runs[s].k = 4
      /\ Names[runs[s].k] = "geofence_violations" <=> runs[s].k = 3
  BY <1>1 DEF Shape, Names
<1>3. /\ UNCHANGED <<workload, processed, roomSeq>>
      /\ violations' = IF runs[s].k = 3 THEN ViolationsAfter(e) ELSE violations
      /\ runs' = [runs EXCEPT ![s].phase = run.phase]
  BY <1>2 DEF Handle
<1>4. runs' = [runs EXCEPT ![s] = run]
  BY <1>1, <1>2, <1>3 DEF Shape
<1>5. IsRun(run) /\ run.k = runs[s].k /\ run.todo = runs[s].todo
  BY <1>2 DEF IsRun
<1>6. /\ IsSequence(violations')
      /\ \A y : Contains(violations, y) => Contains(violations', y)
      /\ Crossing(e) /\ runs[s].k = 3 => Contains(violations', e.time)
  BY <1>2, <1>3, ViolationsGrow
<1>7. Shape'
  <2>1. roomSeq' \in [Rooms -> Nat]
    BY <1>1, <1>3 DEF Shape
  <2>2. QED
    BY <1>1, <1>3, <1>4, <1>5, <1>6, <2>1, ShapeKept
<1>8. Log' = Log
  BY <1>3 DEF Log
<1>8a. /\ AtMark(3)' \subseteq AtMark(3) \cup {Head(run.todo)}
       /\ run.k # 3 => AtMark(3)' \subseteq AtMark(3)
  BY <1>1, <1>3, <1>4, NowAtMark
<1>8b. /\ AtMark(4)' \subseteq AtMark(4) \cup {Head(run.todo)}
       /\ run.k # 4 => AtMark(4)' \subseteq AtMark(4)
  BY <1>1, <1>3, <1>4, NowAtMark
<1>8c. run.phase # "mark" => AtMark(4)' \subseteq AtMark(4)
  BY <1>1, <1>3, <1>4, NotAtMark
<1>8d. runs[s].k = 4 /\ Counted(e) => run.phase # "mark"
  BY <1>2
<1>8e. Head(run.todo) = e
  BY <1>5
<1> HIDE DEF run, e
<1>9. AtMark(4)' \subseteq AtMark(4) \/ (runs[s].k = 4 /\ ~Counted(e) /\ AtMark(4)' \subseteq AtMark(4) \cup {e})
  BY <1>5, <1>8b, <1>8c, <1>8d, <1>8e
<1>10. CounterCovers'
  <2>1. SUFFICES ASSUME NEW r \in Rooms PROVE roomSeq'[r] >= Cardinality(Bumped(r)')
    BY DEF CounterCovers
  <2>2. Bumped(r)' \subseteq Bumped(r)
    BY <1>3, <1>8, <1>9 DEF Bumped, Counted
  <2>3. IsFiniteSet(Bumped(r)) /\ Cardinality(Bumped(r)) \in Nat
    BY <1>1, BumpedFinite
  <2>4. Cardinality(Bumped(r)') <= Cardinality(Bumped(r)) /\ Cardinality(Bumped(r)') \in Nat
    BY <2>2, <2>3, FS_Subset, FS_CardinalityType
  <2>5. roomSeq'[r] \in Nat /\ roomSeq'[r] >= Cardinality(Bumped(r))
    BY <1>3 DEF AppliedInv, CounterCovers, Shape
  <2>6. QED
    BY <2>3, <2>4, <2>5
<1>11. ViolationsCover'
  <2>1. /\ AtMark(3)' \subseteq AtMark(3) \cup {e}
        /\ runs[s].k # 3 => AtMark(3)' \subseteq AtMark(3)
    BY <1>5, <1>8a, <1>8e
  <2>2. SUFFICES ASSUME NEW f \in Log, Crossing(f),
                        <<"geofence_violations", f>> \in processed \/ f \in AtMark(3)'
                 PROVE  Contains(violations', f.time)
    BY <1>3, <1>8 DEF ViolationsCover, Crossing, Contains
  <2>3. CASE <<"geofence_violations", f>> \in processed \/ f \in AtMark(3)
    BY <2>2, <2>3, <1>6 DEF AppliedInv, ViolationsCover
  <2>4. CASE f \in AtMark(3)' /\ f \notin AtMark(3)
    BY <2>1, <2>2, <2>4, <1>6
  <2>5. QED
    BY <2>2, <2>3, <2>4
<1>12. QED
  BY <1>7, <1>10, <1>11 DEF AppliedInv

\* One more element makes a finite set larger by at most one.
LEMMA AddedOne ==
    ASSUME NEW S, NEW x, IsFiniteSet(S)
    PROVE  /\ IsFiniteSet(S \cup {x})
           /\ Cardinality(S \cup {x}) \in Nat
           /\ Cardinality(S \cup {x}) <= Cardinality(S) + 1
<1>1. Cardinality(S) \in Nat
  BY FS_CardinalityType
<1>2. /\ IsFiniteSet(S \cup {x})
      /\ Cardinality(S \cup {x}) = IF x \in S THEN Cardinality(S) ELSE Cardinality(S) + 1
  BY FS_AddElement
<1>3. QED
  BY <1>1, <1>2

\* The room counter of the event grows with the set of events that it has to cover.
LEMMA BumpStep ==
    ASSUME AppliedInv, NEW s \in Slots, BumpRoomSequence(s) PROVE AppliedInv'
<1> DEFINE e == Head(runs[s].todo)
           run == [runs[s] EXCEPT !.phase = "mark"]
<1>1. Shape
  BY DEF AppliedInv
<1>2. /\ UNCHANGED <<workload, processed, violations>>
      /\ roomSeq' = [roomSeq EXCEPT ![e.room] = @ + 1]
      /\ runs' = [runs EXCEPT ![s].phase = "mark"] /\ runs[s].phase = "bump"
  BY DEF BumpRoomSequence
<1>3. runs' = [runs EXCEPT ![s] = run] /\ IsRun(run) /\ run.k = 4 /\ run.todo = runs[s].todo
  BY <1>1, <1>2 DEF Shape, IsRun
<1>4. Shape'
  <2>1. roomSeq' \in [Rooms -> Nat] /\ IsSequence(violations')
    <3>1. PICK room : roomSeq' = [roomSeq EXCEPT ![room] = @ + 1]
      BY <1>2
    <3>2. roomSeq \in [Rooms -> Nat] /\ IsSequence(violations)
      BY <1>1 DEF Shape
    <3>3. roomSeq' = [r \in Rooms |-> IF r = room THEN roomSeq[r] + 1 ELSE roomSeq[r]]
      BY <3>1, <3>2
    <3>4. \A r \in Rooms : roomSeq[r] \in Nat
      BY <3>2
    <3>5. roomSeq' \in [Rooms -> Nat]
      BY <3>3, <3>4
    <3>6. QED
      BY <1>2, <3>2, <3>5
  <2>2. QED
    BY <1>1, <1>2, <1>3, <2>1, ShapeKept
<1>5. Log' = Log
  BY <1>2 DEF Log
<1>6. AtMark(3)' \subseteq AtMark(3) /\ AtMark(4)' \subseteq AtMark(4) \cup {e}
  <2>1. run.k # 3 => AtMark(3)' \subseteq AtMark(3)
    BY <1>1, <1>2, <1>3, NowAtMark
  <2>2. AtMark(4)' \subseteq AtMark(4) \cup {Head(run.todo)}
    BY <1>1, <1>2, <1>3, NowAtMark
  <2>3. QED
    BY <1>3, <2>1, <2>2
<1>7. CounterCovers'
  <2>1. SUFFICES ASSUME NEW r \in Rooms PROVE roomSeq'[r] >= Cardinality(Bumped(r)')
    BY DEF CounterCovers
  <2>2. IsFiniteSet(Bumped(r)) /\ Cardinality(Bumped(r)) \in Nat
    BY <1>1, BumpedFinite
  <2>3. roomSeq[r] \in Nat /\ roomSeq[r] >= Cardinality(Bumped(r))
    BY <1>1 DEF AppliedInv, CounterCovers, Shape
  <2>4. CASE e.room = r
    <3>1. roomSeq'[r] = roomSeq[r] + 1
      BY <1>1, <1>2, <2>4 DEF Shape
    <3>2. Bumped(r)' \subseteq Bumped(r) \cup {e}
      BY <1>2, <1>5, <1>6 DEF Bumped, Counted
    <3>3. /\ IsFiniteSet(Bumped(r) \cup {e})
          /\ Cardinality(Bumped(r) \cup {e}) \in Nat
          /\ Cardinality(Bumped(r) \cup {e}) <= Cardinality(Bumped(r)) + 1
      BY <2>2, AddedOne
    <3>4. Cardinality(Bumped(r)') <= Cardinality(Bumped(r) \cup {e}) /\ Cardinality(Bumped(r)') \in Nat
      BY <3>2, <3>3, FS_Subset, FS_CardinalityType
    <3>5. QED
      BY <2>2, <2>3, <3>1, <3>3, <3>4
  <2>5. CASE e.room # r
    <3>1. roomSeq'[r] = roomSeq[r]
      BY <1>1, <1>2, <2>5 DEF Shape
    <3>2. Bumped(r)' \subseteq Bumped(r)
      BY <1>2, <1>5, <1>6, <2>5 DEF Bumped, Counted
    <3>3. Cardinality(Bumped(r)') <= Cardinality(Bumped(r)) /\ Cardinality(Bumped(r)') \in Nat
      BY <2>2, <3>2, FS_Subset, FS_CardinalityType
    <3>4. QED
      BY <2>2, <2>3, <3>1, <3>3
  <2>6. QED
    BY <2>4, <2>5
<1>8. ViolationsCover'
  BY <1>2, <1>5, <1>6 DEF AppliedInv, ViolationsCover, Contains, Crossing
<1>9. QED
  BY <1>4, <1>7, <1>8 DEF AppliedInv

\* What becomes marked was about to be marked, so the sets to cover do not grow.
LEMMA MarkStep ==
    ASSUME AppliedInv, NEW s \in Slots, Mark(s) PROVE AppliedInv'
<1> DEFINE e == Head(runs[s].todo)
<1>1. Shape /\ IsSequence(violations)
  BY DEF AppliedInv, Shape
<1>2. /\ UNCHANGED <<workload, roomSeq, violations>> /\ Advances(s)
      /\ processed' = processed \cup {<<Names[runs[s].k], e>>} /\ runs[s].phase = "mark"
  BY DEF Mark, sink
<1>3. PICK run : runs' = [runs EXCEPT ![s] = run] /\ IsRun(run) /\ run.phase # "mark"
  BY <1>1, <1>2, AdvancedRun
<1>4. Shape'
  <2>1. roomSeq' \in [Rooms -> Nat] /\ IsSequence(violations')
    BY <1>1, <1>2 DEF Shape
  <2>2. QED
    BY <1>1, <1>2, <1>3, <2>1, ShapeKept
<1>5. Log' = Log
  BY <1>2 DEF Log
<1>6. AtMark(3)' \subseteq AtMark(3) /\ AtMark(4)' \subseteq AtMark(4)
  BY <1>1, <1>2, <1>3, NotAtMark
<1>7. /\ runs[s].k \in 1 .. 4
      /\ Names[runs[s].k] = "sequence" => runs[s].k = 4
      /\ Names[runs[s].k] = "geofence_violations" => runs[s].k = 3
  BY <1>1 DEF Shape, Names
<1>8. \A f \in Log : /\ <<"sequence", f>> \in processed' => <<"sequence", f>> \in processed \/ f \in AtMark(4)
                     /\ <<"geofence_violations", f>> \in processed' =>
                           <<"geofence_violations", f>> \in processed \/ f \in AtMark(3)
  BY <1>2, <1>7 DEF AtMark
<1>9. CounterCovers'
  <2>1. SUFFICES ASSUME NEW r \in Rooms PROVE roomSeq'[r] >= Cardinality(Bumped(r)')
    BY DEF CounterCovers
  <2>2. Bumped(r)' \subseteq Bumped(r)
    BY <1>5, <1>6, <1>8 DEF Bumped, Counted
  <2>3. IsFiniteSet(Bumped(r)) /\ Cardinality(Bumped(r)) \in Nat
    BY <1>1, BumpedFinite
  <2>4. Cardinality(Bumped(r)') <= Cardinality(Bumped(r)) /\ Cardinality(Bumped(r)') \in Nat
    BY <2>2, <2>3, FS_Subset, FS_CardinalityType
  <2>5. roomSeq'[r] \in Nat /\ roomSeq'[r] >= Cardinality(Bumped(r))
    BY <1>2 DEF AppliedInv, CounterCovers, Shape
  <2>6. QED
    BY <2>3, <2>4, <2>5
<1>10. ViolationsCover'
  BY <1>2, <1>5, <1>6, <1>8 DEF AppliedInv, ViolationsCover, Contains, Crossing
<1>11. QED
  BY <1>4, <1>9, <1>10 DEF AppliedInv

\* No call is under way after a stop; the durable sink keeps what was marked and applied, the
\* in-memory sink starts from nothing.
LEMMA StopStep ==
    ASSUME AppliedInv, Stop PROVE AppliedInv'
<1>1. /\ Slots' = Slots /\ Log' = Log /\ UNCHANGED workload
      /\ runs' = [s \in Slots |-> Done]
  BY DEF Stop, Slots, Log
<1>2. \A k : AtMark(k)' = {}
  BY <1>1 DEF AtMark, Done
<1>3. /\ workload' \in Workloads
      /\ runs' = [s \in Slots' |-> runs'[s]]
      /\ \A s \in Slots' : IsRun(runs'[s])
  BY <1>1 DEF AppliedInv, Shape, IsRun, Done
<1>4. CASE Durable
  <2>1. UNCHANGED <<workload, processed, roomSeq, violations>>
    BY <1>1, <1>4 DEF Stop, sink
  <2>2. roomSeq' \in [Rooms -> Nat] /\ IsSequence(violations)'
    BY <2>1 DEF AppliedInv, Shape, IsSequence
  <2>3. Shape'
    BY <1>3, <2>2 DEF Shape, IsRun
  <2>4. QED
    BY <1>2, <2>1, <2>3, CoverKept
<1>5. CASE ~Durable
  <2>1. processed' = {} /\ violations' = <<>> /\ roomSeq' = [r \in Rooms |-> 0]
    BY <1>5 DEF Stop, EmptySink
  <2>2. IsSequence(violations)'
    <3>1. violations' \in Seq({})
      BY <2>1
    <3>2. QED
      BY <3>1 DEF IsSequence
  <2>3. Shape'
    BY <1>3, <2>1, <2>2 DEF Shape, IsRun
  <2>4. CounterCovers'
    <3>1. SUFFICES ASSUME NEW r \in Rooms PROVE roomSeq'[r] >= Cardinality(Bumped(r)')
      BY DEF CounterCovers
    <3>2. Bumped(r)' = {}
      BY <1>2, <2>1 DEF Bumped
    <3>3. QED
      BY <2>1, <3>2, FS_EmptySet
  <2>5. ViolationsCover'
    BY <1>2, <2>1 DEF ViolationsCover
  <2>6. QED
    BY <2>3, <2>4, <2>5 DEF AppliedInv
<1>6. QED
  BY <1>4, <1>5

\* What the invariant says of marked events alone is the property.
LEMMA CoversMarked ==
    ASSUME AppliedInv PROVE MarkedIsApplied
<1>1. ASSUME NEW r \in Rooms
      PROVE  roomSeq[r] >= Cardinality({e \in ProcessedBy("sequence") : Counted(e) /\ e.room = r})
  <2>1. DEFINE marked == {e \in ProcessedBy("sequence") : Counted(e) /\ e.room = r}
  <2>2. marked \subseteq Bumped(r)
    BY DEF ProcessedBy, Bumped
  <2>3. IsFiniteSet(Bumped(r)) /\ Cardinality(Bumped(r)) \in Nat
    BY BumpedFinite DEF AppliedInv
  <2>4. Cardinality(marked) <= Cardinality(Bumped(r)) /\ Cardinality(marked) \in Nat
    BY <2>2, <2>3, FS_Subset, FS_CardinalityType
  <2>5. roomSeq[r] \in Nat /\ roomSeq[r] >= Cardinality(Bumped(r))
    BY DEF AppliedInv, CounterCovers, Shape
  <2>6. QED
    BY <2>3, <2>4, <2>5
<1>2. \A e \in ProcessedBy("geofence_violations") : Crossing(e) => Contains(violations, e.time)
  BY DEF AppliedInv, ViolationsCover, ProcessedBy
<1>3. QED
  BY <1>1, <1>2 DEF MarkedIsApplied

\* Every step keeps the invariant.
LEMMA AppliedNext == AppliedInv /\ [Next]_vars => AppliedInv'
<1> SUFFICES ASSUME AppliedInv, [Next]_vars PROVE AppliedInv'
  OBVIOUS
<1>1. CASE Next
  <2>1. ASSUME NEW s \in Slots,
               \/ Check(s) \/ CheckFails(s) \/ ReadVehicle(s) \/ Handle(s) \/ BumpRoomSequence(s)
               \/ Mark(s) \/ HandleFails(s)
               \/ \E batch \in SUBSET Log : ProcessEvents(s, batch)
        PROVE  AppliedInv'
    BY <2>1, CheckStep, CheckFailsStep, ReadVehicleStep, HandleStep, BumpStep, MarkStep,
       HandleFailsStep, ProcessEventsStep
  <2>2. CASE Stop
    BY <2>2, StopStep
  <2>3. QED
    BY <1>1, <2>1, <2>2 DEF Next
<1>2. CASE UNCHANGED vars
  <2>1. UNCHANGED <<workload, processed, roomSeq, violations, runs>>
    BY <1>2 DEF vars, sink
  <2>2. Shape' /\ AtMark(3)' = AtMark(3) /\ AtMark(4)' = AtMark(4)
    BY <2>1 DEF AppliedInv, Shape, IsSequence, AtMark, Slots, Log
  <2>3. QED
    BY <2>1, <2>2, CoverKept
<1>3. QED
  BY <1>1, <1>2

\* An event that markEventProcessed() recorded has had its effect on the room counter and on the
\* violations, for every log and either sink, however many processEvents() calls interleave,
\* whatever statement fails and wherever the process stops.
THEOREM MarkedAlwaysApplied == Spec => []MarkedIsApplied
<1>1. QED
  BY InitApplied, AppliedNext, CoversMarked, PTL DEF Spec

-----------------------------------------------------------------------------
(* The kinds of steps a call can take. *)

Row == [rooms : (SUBSET Rooms) \cup {NoRooms}, at : Nat]

\* What a call has to do are events of the log; it is at an event unless it is at a look-up.
Fine(run, events) ==
    /\ run.todo \in Seq(events) /\ run.read \in Row
    /\ run.phase \in {"check", "read", "handle", "bump", "mark"}
    /\ run.phase \in {"check", "read"} => run.k = 1
    /\ run.phase # "check" => run.todo # <<>>

Typed ==
    /\ vehicle \in [Clients -> Row]
    /\ members \in [Rooms -> SUBSET Clients]
    /\ vehicleSeq \in [Clients -> Nat]
    /\ \A s \in Slots : Fine(runs[s], Log)

Moved(s, run) ==
    /\ UNCHANGED workload
    /\ runs' = [runs EXCEPT ![s] = run]
    /\ IsRun(run) /\ Fine(run, Log)

\* The call leaves its event, or what is left of its batch, or takes a new one.
Quits(s, run) ==
    /\ Moved(s, run) /\ run.phase = "check"
    /\ runs[s].phase = "check" \/ SinkFails
    /\ UNCHANGED <<sink, processed>>

\* A projection failed and the next one is up.
Fails(s, run) ==
    /\ Moved(s, run) /\ run.phase = "handle" /\ run.k > 1
    /\ SinkFails
    /\ UNCHANGED <<sink, processed>>

\* The event is not marked by all projections and goes to the first one.
Begins(s, run) ==
    /\ Moved(s, run) /\ run.phase = "read" /\ run.k = 1 /\ run.todo = runs[s].todo
    /\ runs[s].phase = "check" /\ ~IsProcessedByAll(Head(run.todo))
    /\ UNCHANGED <<sink, processed>>

Reads(s, run) ==
    /\ Moved(s, run) /\ run.phase = "handle" /\ run.k = 1 /\ run.todo = runs[s].todo
    /\ run.read = vehicle[Head(run.todo).client]
    /\ runs[s].phase = "read"
    /\ UNCHANGED <<sink, processed>>

Handles(s, run, e) ==
    /\ Moved(s, run) /\ run.k = runs[s].k /\ run.todo = runs[s].todo /\ e = Head(run.todo)
    /\ runs[s].phase = "handle"
    /\ run.phase = IF run.k = 4 /\ Counted(e) THEN "bump" ELSE "mark"
    /\ vehicle' = IF run.k = 1 THEN [vehicle EXCEPT ![e.client] = VehicleRow(e, runs[s].read, @)]
                  ELSE vehicle
    /\ members' = IF run.k = 2 THEN MembersAfter(e) ELSE members
    /\ violations' = IF run.k = 3 THEN ViolationsAfter(e) ELSE violations
    /\ vehicleSeq' = IF run.k = 4 THEN SequenceAfter(e) ELSE vehicleSeq
    /\ UNCHANGED <<roomSeq, processed>>

Bumps(s, run, e) ==
    /\ Moved(s, run) /\ run.k = 4 /\ run.todo = runs[s].todo /\ e = Head(run.todo)
    /\ run.phase = "mark" /\ runs[s].phase = "bump" /\ runs[s].k = 4
    /\ roomSeq' = [roomSeq EXCEPT ![e.room] = @ + 1]
    /\ UNCHANGED <<vehicle, members, violations, vehicleSeq, processed>>

Marks(s, run, e) ==
    /\ Moved(s, run) /\ e = Head(runs[s].todo)
    /\ runs[s].phase = "mark"
    /\ processed' = processed \cup {<<Names[runs[s].k], e>>}
    /\ \/ runs[s].k < 4 /\ run.phase = "handle" /\ run.k = runs[s].k + 1 /\ run.todo = runs[s].todo
       \/ runs[s].k = 4 /\ run.phase = "check"
    /\ UNCHANGED sink

\* An event of the log is typed, and no two have one time.
LEMMA LogEvents ==
    ASSUME Shape
    PROVE  /\ \A e \in Log : e.time \in Nat /\ e.client \in Clients /\ e.room \in Rooms
           /\ \A e, f \in Log : e.time = f.time => e = f
           /\ IsFiniteSet(Log) /\ IsFiniteSet(Slots)
           /\ SinkFails \in BOOLEAN /\ workload.stops \in BOOLEAN
<1>1. workload \in Workloads
  BY DEF Shape
<1>2. /\ \A e, f \in workload.log : e.time = f.time => e = f
      /\ IsFiniteSet(workload.log) /\ IsFiniteSet(workload.slots)
      /\ \A e \in workload.log : e.time \in Nat \ {0} /\ e.client \in Clients /\ e.room \in Rooms
      /\ {workload.fails, workload.stops} \subseteq BOOLEAN
  BY <1>1, WorkloadAssumption
<1>3. QED
  BY <1>2 DEF Log, Slots, SinkFails

LEMMA DoneFine ==
    ASSUME NEW events, NEW todo \in Seq(events)
    PROVE  /\ IsRun([Done EXCEPT !.todo = todo]) /\ Fine([Done EXCEPT !.todo = todo], events)
           /\ [Done EXCEPT !.todo = todo].phase = "check"
<1> DEFINE run == [Done EXCEPT !.todo = todo]
<1>1. /\ DOMAIN run = {"todo", "phase", "k", "read"} /\ run.todo = todo /\ run.phase = "check"
      /\ run.k = 1 /\ run.read = [rooms |-> NoRooms, at |-> 0]
  BY DEF Done
<1>2. run.read \in Row
  BY <1>1 DEF Row
<1> HIDE DEF run
<1>3. IsRun(run) /\ Fine(run, events) /\ run.phase = "check"
  BY <1>1, <1>2 DEF IsRun, Fine
<1>4. QED
  BY <1>3 DEF run

\* The event a call is at.
LEMMA AtEvent ==
    ASSUME Shape, Typed, NEW s \in Slots
    PROVE  /\ IsRun(runs[s]) /\ Fine(runs[s], Log) /\ runs[s].todo \in Seq(Log)
           /\ runs[s].todo # <<>> => /\ Head(runs[s].todo) \in Log
                                     /\ Tail(runs[s].todo) \in Seq(Log)
           /\ runs[s].phase # "check" => runs[s].todo # <<>>
<1>1. IsRun(runs[s]) /\ Fine(runs[s], Log)
  BY DEF Shape, Typed, IsRun
<1>2. runs[s].todo \in Seq(Log)
  BY <1>1 DEF Fine
<1>3. QED
  BY <1>1, <1>2, HeadTailProperties DEF Fine

\* The name of a projection tells its place.
LEMMA NamesPlaces ==
    /\ Len(Names) = 4
    /\ Names[1] = "vehicle_state" /\ Names[2] = "room_membership"
    /\ Names[3] = "geofence_violations" /\ Names[4] = "sequence"
    /\ \A k \in 1 .. 4 : /\ Names[k] = "vehicle_state" <=> k = 1
                         /\ Names[k] = "room_membership" <=> k = 2
                         /\ Names[k] = "geofence_violations" <=> k = 3
                         /\ Names[k] = "sequence" <=> k = 4
BY DEF Names

\* Where a call goes from a projection: to the next one, or past the event.
LEMMA AdvancesTo ==
    ASSUME Shape, Typed, NEW s \in Slots, Advances(s), runs[s].phase # "check"
    PROVE  \E run : /\ runs' = [runs EXCEPT ![s] = run]
                    /\ IsRun(run) /\ Fine(run, Log)
                    /\ \/ /\ runs[s].k < 4 /\ run.phase = "handle"
                          /\ run.k = runs[s].k + 1 /\ run.todo = runs[s].todo
                       \/ runs[s].k = 4 /\ run.phase = "check"
<1>0. /\ IsRun(runs[s]) /\ Fine(runs[s], Log) /\ runs[s].todo \in Seq(Log)
      /\ runs[s].todo # <<>> /\ Tail(runs[s].todo) \in Seq(Log) /\ runs[s].k \in 1 .. 4
  BY AtEvent DEF IsRun
<1>1. CASE runs[s].k < 4
  <2> DEFINE run == [runs[s] EXCEPT !.phase = "handle", !.k = @ + 1]
  <2>1. runs' = [runs EXCEPT ![s] = run]
    BY <1>1, NamesPlaces DEF Advances, Shape
  <2>2. /\ DOMAIN run = {"todo", "phase", "k", "read"} /\ run.todo = runs[s].todo
        /\ run.phase = "handle" /\ run.k = runs[s].k + 1 /\ run.read = runs[s].read
    BY <1>0 DEF IsRun
  <2> HIDE DEF run
  <2>3. IsRun(run) /\ Fine(run, Log)
    BY <1>0, <1>1, <2>2 DEF IsRun, Fine
  <2>4. QED
    BY <1>1, <2>1, <2>2, <2>3
<1>2. CASE runs[s].k = 4
  <2> DEFINE run == [Done EXCEPT !.todo = Tail(runs[s].todo)]
  <2>1. runs' = [runs EXCEPT ![s] = run]
    BY <1>2, NamesPlaces DEF Advances, Leaves
  <2>2. IsRun(run) /\ Fine(run, Log) /\ run.phase = "check"
    BY <1>0, DoneFine
  <2>3. QED
    BY <1>2, <2>1, <2>2
<1>3. QED
  BY <1>0, <1>1, <1>2

\* Every step of a call is of one of the kinds.
KindOf(s, run) ==
    \/ Quits(s, run) \/ Fails(s, run) \/ Begins(s, run) \/ Reads(s, run)
    \/ \E e \in Log : Handles(s, run, e) \/ Bumps(s, run, e) \/ Marks(s, run, e)

LEMMA ProcessEventsKind ==
    ASSUME Shape, Typed, NEW s \in Slots, NEW batch \in SUBSET Log, ProcessEvents(s, batch)
    PROVE  \E run : KindOf(s, run)
<1>1. PICK todo \in Sorted(batch) : runs' = [runs EXCEPT ![s].todo = todo]
  BY DEF ProcessEvents
<1>2. runs[s] = Done /\ UNCHANGED <<workload, sink, processed>>
  BY DEF ProcessEvents
<1>3. todo \in Seq(Log)
  <2>1. IsFiniteSet(batch)
    BY LogEvents, FS_Subset
  <2>2. Cardinality(batch) \in Nat
    BY <2>1, FS_CardinalityType
  <2>3. todo \in [1 .. Cardinality(batch) -> batch]
    BY DEF Sorted
  <2>4. todo \in [1 .. Cardinality(batch) -> Log]
    BY <2>3
  <2>5. QED
    BY <2>2, <2>4, SeqDef
<1> DEFINE run == [Done EXCEPT !.todo = todo]
<1>4. runs' = [runs EXCEPT ![s] = run]
  BY <1>1, <1>2 DEF Shape
<1>5. IsRun(run) /\ Fine(run, Log) /\ run.phase = "check"
  BY <1>3, DoneFine
<1>6. runs[s].phase = "check"
  BY <1>2 DEF Done
<1> HIDE DEF run
<1>7. Quits(s, run)
  BY <1>2, <1>4, <1>5, <1>6 DEF Quits, Moved
<1>8. QED
  BY <1>7 DEF KindOf

LEMMA CheckKind ==
    ASSUME Shape, Typed, NEW s \in Slots, Check(s) PROVE \E run : KindOf(s, run)
<1>0. /\ IsRun(runs[s]) /\ Fine(runs[s], Log) /\ runs[s].todo \in Seq(Log)
      /\ runs[s].todo # <<>> /\ Tail(runs[s].todo) \in Seq(Log) /\ runs[s].phase = "check"
  BY AtEvent DEF Check
<1>1. CASE IsProcessedByAll(Head(runs[s].todo))
  <2> DEFINE run == [Done EXCEPT !.todo = Tail(runs[s].todo)]
  <2>1. runs' = [runs EXCEPT ![s] = run] /\ UNCHANGED <<workload, sink, processed>>
    BY <1>1 DEF Check, Skip, Leaves
  <2>2. IsRun(run) /\ Fine(run, Log) /\ run.phase = "check"
    BY <1>0, DoneFine
  <2> HIDE DEF run
  <2>3. Quits(s, run)
    BY <1>0, <2>1, <2>2 DEF Quits, Moved
  <2>4. QED
    BY <2>3 DEF KindOf
<1>2. CASE ~IsProcessedByAll(Head(runs[s].todo))
  <2> DEFINE run == [runs[s] EXCEPT !.phase = "read"]
  <2>1. runs' = [runs EXCEPT ![s] = run] /\ UNCHANGED <<workload, sink, processed>>
    BY <1>2 DEF Check, Shape
  <2>2. /\ DOMAIN run = {"todo", "phase", "k", "read"} /\ run.todo = runs[s].todo
        /\ run.phase = "read" /\ run.k = runs[s].k /\ run.read = runs[s].read
    BY <1>0 DEF IsRun
  <2> HIDE DEF run
  <2>3. IsRun(run) /\ Fine(run, Log) /\ run.k = 1
    BY <1>0, <2>2 DEF IsRun, Fine
  <2>4. Begins(s, run)
    BY <1>0, <1>2, <2>1, <2>2, <2>3 DEF Begins, Moved
  <2>5. QED
    BY <2>4 DEF KindOf
<1>3. QED
  BY <1>1, <1>2

LEMMA CheckFailsKind ==
    ASSUME Shape, Typed, NEW s \in Slots, CheckFails(s) PROVE \E run : KindOf(s, run)
<1> DEFINE run == [Done EXCEPT !.todo = <<>>]
<1>1. run = Done
  BY DEF Done
<1>2. <<>> \in Seq(Log)
  OBVIOUS
<1>3. IsRun(run) /\ Fine(run, Log) /\ run.phase = "check"
  BY <1>2, DoneFine
<1>4. /\ runs' = [runs EXCEPT ![s] = Done] /\ runs[s].phase = "check"
      /\ UNCHANGED <<workload, sink, processed>>
  BY DEF CheckFails
<1> HIDE DEF run
<1>5. Quits(s, run)
  BY <1>1, <1>3, <1>4 DEF Quits, Moved
<1>6. QED
  BY <1>5 DEF KindOf

LEMMA ReadKind ==
    ASSUME Shape, Typed, NEW s \in Slots, ReadVehicle(s) PROVE \E run : KindOf(s, run)
<1>0. /\ IsRun(runs[s]) /\ Fine(runs[s], Log) /\ runs[s].phase = "read"
      /\ runs[s].todo # <<>> /\ Head(runs[s].todo) \in Log /\ runs[s].k = 1
  BY AtEvent DEF ReadVehicle, Fine
<1> DEFINE row == vehicle[Head(runs[s].todo).client]
           run == [runs[s] EXCEPT !.phase = "handle", !.read = row]
<1>1. runs' = [runs EXCEPT ![s] = run] /\ UNCHANGED <<workload, sink, processed>>
  BY DEF ReadVehicle, Shape
<1>2. row \in Row
  <2>1. Head(runs[s].todo).client \in Clients
    BY <1>0, LogEvents
  <2>2. QED
    BY <2>1 DEF Typed
<1> HIDE DEF row
<1>3. /\ DOMAIN run = {"todo", "phase", "k", "read"} /\ run.todo = runs[s].todo
      /\ run.phase = "handle" /\ run.k = runs[s].k /\ run.read = row
  BY <1>0 DEF IsRun
<1> HIDE DEF run
<1>4. IsRun(run) /\ Fine(run, Log)
  BY <1>0, <1>2, <1>3 DEF IsRun, Fine
<1>5. Reads(s, run)
  BY <1>0, <1>1, <1>3, <1>4 DEF Reads, Moved, row
<1>6. QED
  BY <1>5 DEF KindOf

LEMMA HandleKind ==
    ASSUME Shape, Typed, NEW s \in Slots, Handle(s) PROVE \E run : KindOf(s, run)
<1> DEFINE e == Head(runs[s].todo)
           phase == IF runs[s].k = 4 /\ Counted(e) THEN "bump" ELSE "mark"
           run == [runs[s] EXCEPT !.phase = phase]
<1>0. /\ IsRun(runs[s]) /\ Fine(runs[s], Log) /\ runs[s].phase = "handle"
      /\ runs[s].todo # <<>> /\ e \in Log /\ runs[s].k \in 1 .. 4
  BY AtEvent DEF Handle, IsRun
<1>1. /\ Names[runs[s].k] = "vehicle_state" <=> runs[s].k = 1
      /\ Names[runs[s].k] = "room_membership" <=> runs[s].k = 2
      /\ Names[runs[s].k] = "geofence_violations" <=> runs[s].k = 3
      /\ Names[runs[s].k] = "sequence" <=> runs[s].k = 4
  BY <1>0, NamesPlaces
<1>2. /\ vehicle' = IF runs[s].k = 1
                    THEN [vehicle EXCEPT ![e.client] = VehicleRow(e, runs[s].read, @)] ELSE vehicle
      /\ members' = IF runs[s].k = 2 THEN MembersAfter(e) ELSE members
      /\ violations' = IF runs[s].k = 3 THEN ViolationsAfter(e) ELSE violations
      /\ vehicleSeq' = IF runs[s].k = 4 THEN SequenceAfter(e) ELSE vehicleSeq
      /\ runs' = [runs EXCEPT ![s].phase = phase]
      /\ UNCHANGED <<workload, roomSeq, processed>>
  BY <1>1 DEF Handle
<1>3. phase \in {"bump", "mark"} /\ (phase = "bump" => runs[s].k = 4)
  OBVIOUS
<1>3a. phase = IF runs[s].k = 4 /\ Counted(e) THEN "bump" ELSE "mark"
  OBVIOUS
<1> HIDE DEF e, phase
<1>4. runs' = [runs EXCEPT ![s] = run]
  BY <1>2 DEF Shape
<1>5. /\ DOMAIN run = {"todo", "phase", "k", "read"} /\ run.todo = runs[s].todo
      /\ run.phase = phase /\ run.k = runs[s].k /\ run.read = runs[s].read
  BY <1>0 DEF IsRun
<1> HIDE DEF run
<1>6. IsRun(run) /\ Fine(run, Log)
  BY <1>0, <1>3, <1>5 DEF IsRun, Fine
<1>7. Moved(s, run) /\ e = Head(run.todo)
  BY <1>2, <1>4, <1>5, <1>6 DEF Moved, e
<1>8. Handles(s, run, e)
  BY <1>0, <1>2, <1>3a, <1>5, <1>7 DEF Handles
<1>9. QED
  BY <1>0, <1>8 DEF KindOf

LEMMA BumpKind ==
    ASSUME Shape, Typed, NEW s \in Slots, BumpRoomSequence(s) PROVE \E run : KindOf(s, run)
<1> DEFINE e == Head(runs[s].todo)
           run == [runs[s] EXCEPT !.phase = "mark"]
<1>0. /\ IsRun(runs[s]) /\ Fine(runs[s], Log) /\ runs[s].phase = "bump"
      /\ runs[s].todo # <<>> /\ e \in Log /\ runs[s].k = 4
  BY AtEvent DEF BumpRoomSequence, IsRun
<1>1. /\ roomSeq' = [roomSeq EXCEPT ![e.room] = @ + 1]
      /\ runs' = [runs EXCEPT ![s] = run]
      /\ UNCHANGED <<workload, vehicle, members, violations, vehicleSeq, processed>>
  BY DEF BumpRoomSequence, Shape
<1>2. /\ DOMAIN run = {"todo", "phase", "k", "read"} /\ run.todo = runs[s].todo
      /\ run.phase = "mark" /\ run.k = runs[s].k /\ run.read = runs[s].read
  BY <1>0 DEF IsRun
<1> HIDE DEF run
<1>3. IsRun(run) /\ Fine(run, Log)
  BY <1>0, <1>2 DEF IsRun, Fine
<1>4. Bumps(s, run, e)
  BY <1>0, <1>1, <1>2, <1>3 DEF Bumps, Moved
<1>5. QED
  BY <1>0, <1>4 DEF KindOf

LEMMA MarkKind ==
    ASSUME Shape, Typed, NEW s \in Slots, Mark(s) PROVE \E run : KindOf(s, run)
<1> DEFINE e == Head(runs[s].todo)
<1>0. /\ runs[s].phase = "mark" /\ runs[s].todo # <<>> /\ e \in Log /\ Advances(s)
      /\ processed' = processed \cup {<<Names[runs[s].k], e>>}
      /\ UNCHANGED <<workload, sink>>
  BY AtEvent DEF Mark
<1>1. PICK run : /\ runs' = [runs EXCEPT ![s] = run]
                 /\ IsRun(run) /\ Fine(run, Log)
                 /\ \/ /\ runs[s].k < 4 /\ run.phase = "handle"
                       /\ run.k = runs[s].k + 1 /\ run.todo = runs[s].todo
                    \/ runs[s].k = 4 /\ run.phase = "check"
  BY <1>0, AdvancesTo
<1>2. Marks(s, run, e)
  BY <1>0, <1>1 DEF Marks, Moved
<1>3. QED
  BY <1>0, <1>2 DEF KindOf

LEMMA HandleFailsKind ==
    ASSUME Shape, Typed, NEW s \in Slots, HandleFails(s) PROVE \E run : KindOf(s, run)
<1>0. /\ runs[s].phase # "check" /\ Advances(s) /\ SinkFails
      /\ UNCHANGED <<workload, sink, processed>>
  BY DEF HandleFails
<1>1. PICK run : /\ runs' = [runs EXCEPT ![s] = run]
                 /\ IsRun(run) /\ Fine(run, Log)
                 /\ \/ /\ runs[s].k < 4 /\ run.phase = "handle"
                       /\ run.k = runs[s].k + 1 /\ run.todo = runs[s].todo
                    \/ runs[s].k = 4 /\ run.phase = "check"
  BY <1>0, AdvancesTo
<1>2. runs[s].k \in 1 .. 4
  BY AtEvent DEF IsRun
<1>3. Fails(s, run) \/ Quits(s, run)
  BY <1>0, <1>1, <1>2 DEF Fails, Quits, Moved
<1>4. QED
  BY <1>3 DEF KindOf

LEMMA StepKinds ==
    ASSUME Shape, Typed, Next
    PROVE  Stop \/ \E s \in Slots : \E run : KindOf(s, run)
<1>1. ASSUME NEW s \in Slots,
             \/ Check(s) \/ CheckFails(s) \/ ReadVehicle(s) \/ Handle(s) \/ BumpRoomSequence(s)
             \/ Mark(s) \/ HandleFails(s)
             \/ \E batch \in SUBSET Log : ProcessEvents(s, batch)
      PROVE  \E run : KindOf(s, run)
  BY <1>1, CheckKind, CheckFailsKind, ReadKind, HandleKind, BumpKind, MarkKind, HandleFailsKind,
     ProcessEventsKind
<1>2. QED
  BY <1>1 DEF Next

\* What a step of a call leaves of the others.
LEMMA MovedRuns ==
    ASSUME Shape, NEW s \in Slots, NEW run, Moved(s, run)
    PROVE  /\ Slots' = Slots /\ Log' = Log /\ SinkFails' = SinkFails /\ Durable' = Durable
           /\ workload' = workload
           /\ runs'[s] = run /\ \A t \in Slots : t # s => runs'[t] = runs[t]
           /\ IsRun(run) /\ Fine(run, Log)
<1>1. UNCHANGED workload /\ runs' = [runs EXCEPT ![s] = run] /\ IsRun(run) /\ Fine(run, Log)
  BY DEF Moved
<1>2. QED
  BY <1>1, RunReplaced DEF SinkFails, Durable

-----------------------------------------------------------------------------
(* Types *)

\* The row a handler writes, type of event by type of event.
LEMMA VehicleRowIs ==
    ASSUME NEW e, e.time \in Nat, NEW read \in Row, NEW row
    PROVE  /\ e.type = "location_update" /\ read.at > e.time => VehicleRow(e, read, row) = row
           /\ e.type = "location_update" /\ ~(read.at > e.time) =>
                VehicleRow(e, read, row) = [rooms |-> UpsertedRooms(read, row), at |-> e.time]
           /\ e.type = "room_joined" =>
                VehicleRow(e, read, row) = [rooms |-> RoomsOf(read) \cup {e.room},
                                            at |-> IF read.at = 0 THEN row.at ELSE read.at]
           /\ e.type = "room_left" =>
                VehicleRow(e, read, row) = [rooms |-> RoomsOf(read) \ {e.room},
                                            at |-> IF read.at = 0 THEN row.at ELSE read.at]
           /\ e.type \notin {"location_update", "room_joined", "room_left"} =>
                VehicleRow(e, read, row) = row
<1>1. read.at \in Nat
  BY DEF Row
<1>2. read.at <= e.time <=> ~(read.at > e.time)
  BY <1>1
<1>3. CASE e.type = "location_update" /\ read.at > e.time
  BY <1>2, <1>3, Zenon DEF VehicleRow
<1>4. CASE e.type = "location_update" /\ ~(read.at > e.time)
  BY <1>2, <1>4 DEF VehicleRow
<1>5. CASE e.type = "room_joined"
  BY <1>5 DEF VehicleRow
<1>6. CASE e.type = "room_left"
  BY <1>6 DEF VehicleRow
<1>7. CASE e.type \notin {"location_update", "room_joined", "room_left"}
  BY <1>7 DEF VehicleRow
<1>8. QED
  BY <1>3, <1>4, <1>5, <1>6, <1>7

LEMMA UpsertedType ==
    ASSUME NEW e \in Log, e.time \in Nat, e.room \in Rooms, NEW read \in Row, NEW row \in Row
    PROVE  VehicleRow(e, read, row) \in Row
<1>1. /\ read.rooms \in (SUBSET Rooms) \cup {NoRooms} /\ read.at \in Nat
      /\ row.rooms \in (SUBSET Rooms) \cup {NoRooms} /\ row.at \in Nat
  BY DEF Row
<1>2. UpsertedRooms(read, row) \in (SUBSET Rooms) \cup {NoRooms}
  BY <1>1 DEF UpsertedRooms
<1>3. RoomsOf(read) \in SUBSET Rooms
  BY <1>1 DEF RoomsOf
<1>4. RoomsOf(read) \cup {e.room} \in SUBSET Rooms /\ RoomsOf(read) \ {e.room} \in SUBSET Rooms
  BY <1>3
<1>5. CASE e.type = "location_update" /\ ~(read.at > e.time)
  BY <1>2, <1>5, VehicleRowIs DEF Row
<1>6. CASE e.type = "room_joined"
  <2> DEFINE left == RoomsOf(read) \cup {e.room}
             at == IF read.at = 0 THEN row.at ELSE read.at
  <2>1. VehicleRow(e, read, row) = [rooms |-> left, at |-> at]
    BY <1>6, VehicleRowIs
  <2>2. left \in SUBSET Rooms /\ at \in Nat
    BY <1>1, <1>4
  <2> HIDE DEF left, at
  <2>3. QED
    BY <2>1, <2>2 DEF Row
<1>7. CASE e.type = "room_left"
  <2> DEFINE left == RoomsOf(read) \ {e.room}
             at == IF read.at = 0 THEN row.at ELSE read.at
  <2>1. VehicleRow(e, read, row) = [rooms |-> left, at |-> at]
    BY <1>7, VehicleRowIs
  <2>2. left \in SUBSET Rooms /\ at \in Nat
    BY <1>1, <1>4
  <2> HIDE DEF left, at
  <2>3. QED
    BY <2>1, <2>2 DEF Row
<1>8. CASE \/ e.type = "location_update" /\ read.at > e.time
           \/ e.type \notin {"location_update", "room_joined", "room_left"}
  BY <1>8, VehicleRowIs
<1>9. QED
  BY <1>5, <1>6, <1>7, <1>8

\* The greater of two numbers.
LEMMA MaxOfTwo ==
    ASSUME NEW a \in Nat, NEW b \in Nat
    PROVE  Max({a, b}) \in Nat /\ Max({a, b}) >= a /\ Max({a, b}) >= b
<1>1. \E x \in {a, b} : \A y \in {a, b} : x >= y
  <2>1. CASE a >= b
    BY <2>1
  <2>2. CASE b >= a
    BY <2>2
  <2>3. QED
    BY <2>1, <2>2
<1>2. /\ Max({a, b}) \in {a, b}
      /\ \A y \in {a, b} : Max({a, b}) >= y
  BY <1>1 DEF Max
<1>3. QED
  BY <1>2

\* setSequence() raises one number and keeps the others.
LEMMA SequenceGrows ==
    ASSUME Typed, NEW e \in Log, e.client \in Clients, e.time \in Nat
    PROVE  /\ SequenceAfter(e) \in [Clients -> Nat]
           /\ SequenceAfter(e)[e.client] >= e.time
           /\ \A c \in Clients : SequenceAfter(e)[c] >= vehicleSeq[c]
<1>1. vehicleSeq \in [Clients -> Nat] /\ vehicleSeq[e.client] \in Nat
  BY DEF Typed
<1> DEFINE top == Max({vehicleSeq[e.client], e.time})
<1>2. top \in Nat /\ top >= vehicleSeq[e.client] /\ top >= e.time
  BY <1>1, MaxOfTwo
<1>3. SequenceAfter(e) = [vehicleSeq EXCEPT ![e.client] = top]
  BY DEF SequenceAfter
<1> HIDE DEF top
<1>4. QED
  BY <1>1, <1>2, <1>3

LEMMA MembersType ==
    ASSUME Typed, NEW e \in Log, e.client \in Clients
    PROVE  MembersAfter(e) \in [Rooms -> SUBSET Clients]
<1>1. members \in [Rooms -> SUBSET Clients]
  BY DEF Typed
<1>2. CASE e.type = "room_joined"
  <2>1. MembersAfter(e) = [members EXCEPT ![e.room] = @ \cup {e.client}]
    BY <1>2 DEF MembersAfter
  <2>2. QED
    BY <1>1, <2>1
<1>3. CASE e.type = "room_left"
  <2>1. MembersAfter(e) = [members EXCEPT ![e.room] = @ \ {e.client}]
    BY <1>3 DEF MembersAfter
  <2>2. QED
    BY <1>1, <2>1
<1>4. CASE e.type # "room_joined" /\ e.type # "room_left"
  BY <1>1, <1>4 DEF MembersAfter
<1>5. QED
  BY <1>2, <1>3, <1>4

LEMMA TypedKept ==
    ASSUME Shape, Typed, NEW s \in Slots, NEW run, Moved(s, run),
           vehicle' \in [Clients -> Row], members' \in [Rooms -> SUBSET Clients],
           vehicleSeq' \in [Clients -> Nat]
    PROVE  Typed'
<1>1. /\ Slots' = Slots /\ Log' = Log
      /\ runs'[s] = run /\ \A t \in Slots : t # s => runs'[t] = runs[t]
      /\ Fine(run, Log)
  BY MovedRuns
<1>2. \A t \in Slots : Fine(runs'[t], Log)
  BY <1>1 DEF Typed
<1>3. QED
  BY <1>1, <1>2 DEF Typed

LEMMA TypedHandles ==
    ASSUME Shape, Typed, NEW s \in Slots, NEW run, NEW e \in Log, Handles(s, run, e)
    PROVE  Typed'
<1>1. e.time \in Nat /\ e.client \in Clients /\ e.room \in Rooms
  BY LogEvents
<1>2. runs[s].read \in Row /\ Moved(s, run)
  BY AtEvent DEF Fine, Handles
<1>3. vehicle' \in [Clients -> Row]
  <2>1. vehicle \in [Clients -> Row]
    BY DEF Typed
  <2>2. VehicleRow(e, runs[s].read, vehicle[e.client]) \in Row
    BY <1>1, <1>2, <2>1, UpsertedType
  <2>3. QED
    BY <2>1, <2>2 DEF Handles
<1>4. members' \in [Rooms -> SUBSET Clients]
  <2>1. MembersAfter(e) \in [Rooms -> SUBSET Clients] /\ members \in [Rooms -> SUBSET Clients]
    BY <1>1, MembersType DEF Typed
  <2>2. QED
    BY <2>1 DEF Handles
<1>5. vehicleSeq' \in [Clients -> Nat]
  <2>1. SequenceAfter(e) \in [Clients -> Nat] /\ vehicleSeq \in [Clients -> Nat]
    BY <1>1, SequenceGrows DEF Typed
  <2>2. QED
    BY <2>1 DEF Handles
<1>6. QED
  BY <1>2, <1>3, <1>4, <1>5, TypedKept

\* A sink with nothing in it.
LEMMA EmptySinkTyped ==
    /\ EmptySink.vehicle \in [Clients -> Row] /\ EmptySink.members \in [Rooms -> SUBSET Clients]
    /\ EmptySink.vehicleSeq \in [Clients -> Nat]
    /\ EmptySink.vehicle = [c \in Clients |-> NoRow]
    /\ EmptySink.members = [r \in Rooms |-> {}]
    /\ EmptySink.violations = <<>>
    /\ EmptySink.roomSeq = [r \in Rooms |-> 0]
    /\ EmptySink.vehicleSeq = [c \in Clients |-> 0]
BY DEF EmptySink, NoRow, Row

\* What a stop leaves: no call, and the sink as it was or empty.
LEMMA StopEffect ==
    ASSUME Shape, Typed, Stop
    PROVE  /\ Slots' = Slots /\ Log' = Log /\ SinkFails' = SinkFails /\ Durable' = Durable
           /\ workload' = workload /\ workload.stops
           /\ \A s \in Slots : runs'[s].phase = "check" /\ Fine(runs'[s], Log)
           /\ \/ UNCHANGED <<sink, processed>>
              \/ /\ ~Durable
                 /\ processed' = {} /\ vehicle' = [c \in Clients |-> NoRow]
                 /\ members' = [r \in Rooms |-> {}] /\ violations' = <<>>
                 /\ vehicleSeq' = [c \in Clients |-> 0] /\ roomSeq' = [r \in Rooms |-> 0]
           /\ Typed'
<1>1. UNCHANGED workload /\ workload.stops /\ runs' = [s \in Slots |-> Done]
  BY DEF Stop
<1>2. /\ Slots' = Slots /\ Log' = Log /\ SinkFails' = SinkFails /\ Durable' = Durable
  BY <1>1 DEF Slots, Log, SinkFails, Durable
<1>3. Done.phase = "check" /\ Fine(Done, Log)
  BY DEF Done, Fine, Row
<1>4. \A s \in Slots : runs'[s].phase = "check" /\ Fine(runs'[s], Log)
  BY <1>1, <1>3
<1>5. CASE Durable
  <2>1. UNCHANGED <<sink, processed>>
    BY <1>5 DEF Stop
  <2>2. Typed'
    BY <1>2, <1>4, <2>1 DEF Typed, sink
  <2>3. QED
    BY <1>1, <1>2, <1>4, <2>1, <2>2
<1>6. CASE ~Durable
  <2>1. /\ processed' = {} /\ vehicle' = EmptySink.vehicle
        /\ members' = EmptySink.members /\ violations' = EmptySink.violations
        /\ vehicleSeq' = EmptySink.vehicleSeq /\ roomSeq' = EmptySink.roomSeq
    BY <1>6 DEF Stop
  <2>2. Typed'
    BY <1>2, <1>4, <2>1, EmptySinkTyped DEF Typed
  <2>3. QED
    BY <1>1, <1>2, <1>4, <1>6, <2>1, <2>2, EmptySinkTyped
<1>7. QED
  BY <1>5, <1>6

LEMMA TypedNext == Shape /\ Typed /\ [Next]_vars => Typed'
<1> SUFFICES ASSUME Shape, Typed, [Next]_vars PROVE Typed'
  OBVIOUS
<1>0. /\ vehicle \in [Clients -> Row] /\ members \in [Rooms -> SUBSET Clients]
      /\ vehicleSeq \in [Clients -> Nat]
  BY DEF Typed
<1>1. ASSUME NEW s \in Slots, NEW run, KindOf(s, run) PROVE Typed'
  <2>1. ASSUME NEW e \in Log, Handles(s, run, e) PROVE Typed'
    BY <2>1, TypedHandles
  <2>2. ASSUME Moved(s, run), UNCHANGED <<vehicle, members, vehicleSeq>> PROVE Typed'
    BY <1>0, <2>2, TypedKept
  <2>3. QED
    BY <1>1, <2>1, <2>2 DEF KindOf, Quits, Fails, Begins, Reads, Bumps, Marks, sink
<1>2. CASE Stop
  BY <1>2, StopEffect
<1>3. CASE UNCHANGED vars
  BY <1>3 DEF Typed, vars, sink, Slots, Log
<1>4. QED
  BY <1>1, <1>2, <1>3, StepKinds

LEMMA TypedInit == Init => Typed
<1> SUFFICES ASSUME Init PROVE Typed
  OBVIOUS
<1>1. /\ vehicle = EmptySink.vehicle /\ members = EmptySink.members
      /\ vehicleSeq = EmptySink.vehicleSeq /\ runs = [s \in Slots |-> Done]
  BY DEF Init
<1>2. Fine(Done, Log)
  BY DEF Done, Fine, Row
<1>3. QED
  BY <1>1, <1>2, EmptySinkTyped DEF Typed

-----------------------------------------------------------------------------
(* The newest wins *)

\* The call is past setSequence() of the event.
Numbered(e) ==
    \E s \in Slots :
        runs[s].k = 4 /\ runs[s].phase \in {"bump", "mark"} /\ Head(runs[s].todo) = e

SequenceNewest ==
    \A e \in Log :
        <<"sequence", e>> \in processed \/ Numbered(e) => vehicleSeq[e.client] >= e.time

LEMMA NumberedAfter ==
    ASSUME Shape, NEW s \in Slots, NEW run, Moved(s, run), NEW e, Numbered(e)'
    PROVE  Numbered(e) \/ (run.k = 4 /\ run.phase \in {"bump", "mark"} /\ Head(run.todo) = e)
<1>1. /\ Slots' = Slots /\ runs'[s] = run /\ \A t \in Slots : t # s => runs'[t] = runs[t]
  BY MovedRuns
<1>2. QED
  BY <1>1 DEF Numbered

LEMMA SequenceNext ==
    Shape /\ Typed /\ SequenceNewest /\ [Next]_vars => SequenceNewest'
<1> SUFFICES ASSUME Shape, Typed, SequenceNewest, [Next]_vars PROVE SequenceNewest'
  OBVIOUS
<1>0. /\ vehicleSeq \in [Clients -> Nat]
      /\ \A e \in Log : e.time \in Nat /\ e.client \in Clients
  BY LogEvents DEF Typed
<1>1. ASSUME NEW s \in Slots, NEW run, KindOf(s, run) PROVE SequenceNewest'
  <2>0. Moved(s, run)
    BY <1>1 DEF KindOf, Quits, Fails, Begins, Reads, Handles, Bumps, Marks
  <2>1. Log' = Log
    BY <2>0, MovedRuns
  <2>2. ASSUME UNCHANGED <<vehicleSeq, processed>>, run.phase \notin {"bump", "mark"}
        PROVE  SequenceNewest'
    BY <2>0, <2>1, <2>2, NumberedAfter DEF SequenceNewest
  <2>3. CASE Quits(s, run) \/ Fails(s, run) \/ Begins(s, run) \/ Reads(s, run)
    BY <2>2, <2>3 DEF Quits, Fails, Begins, Reads, sink
  <2>4. ASSUME NEW e \in Log, Handles(s, run, e) PROVE SequenceNewest'
    <3>1. /\ SequenceAfter(e) \in [Clients -> Nat]
          /\ SequenceAfter(e)[e.client] >= e.time
          /\ \A c \in Clients : SequenceAfter(e)[c] >= vehicleSeq[c]
      BY <1>0, SequenceGrows
    <3>2. /\ vehicleSeq' = IF run.k = 4 THEN SequenceAfter(e) ELSE vehicleSeq
          /\ processed' = processed /\ Head(run.todo) = e
      BY <2>4 DEF Handles
    <3>3. \A c \in Clients : vehicleSeq'[c] >= vehicleSeq[c] /\ vehicleSeq'[c] \in Nat
      BY <1>0, <3>1, <3>2
    <3>4. ASSUME NEW f \in Log, <<"sequence", f>> \in processed \/ Numbered(f)'
          PROVE  vehicleSeq'[f.client] >= f.time
      <4>1. CASE <<"sequence", f>> \in processed \/ Numbered(f)
        <5>1. vehicleSeq[f.client] >= f.time
          BY <4>1 DEF SequenceNewest
        <5>2. vehicleSeq[f.client] \in Nat /\ f.time \in Nat /\ f.client \in Clients
          BY <1>0
        <5>3. QED
          BY <3>3, <5>1, <5>2
      <4>2. CASE run.k = 4 /\ Head(run.todo) = f
        BY <3>1, <3>2, <4>2
      <4>3. QED
        BY <2>0, <3>4, <4>1, <4>2, NumberedAfter
    <3>5. QED
      BY <2>1, <3>2, <3>4 DEF SequenceNewest
  <2>5. ASSUME NEW e \in Log, Bumps(s, run, e) PROVE SequenceNewest'
    <3>1. /\ UNCHANGED <<vehicleSeq, processed>> /\ Head(run.todo) = e /\ run.todo = runs[s].todo
          /\ runs[s].phase = "bump" /\ runs[s].k = 4
      BY <2>5 DEF Bumps
    <3>2. Numbered(e)
      BY <3>1 DEF Numbered
    <3>3. \A f : Numbered(f)' => Numbered(f)
      BY <2>0, <3>1, <3>2, NumberedAfter
    <3>4. QED
      BY <2>1, <3>1, <3>3 DEF SequenceNewest
  <2>6. ASSUME NEW e \in Log, Marks(s, run, e) PROVE SequenceNewest'
    <3>1. /\ UNCHANGED vehicleSeq /\ Head(runs[s].todo) = e /\ runs[s].phase = "mark"
          /\ processed' = processed \cup {<<Names[runs[s].k], e>>}
          /\ run.phase \notin {"bump", "mark"}
      BY <2>6 DEF Marks, sink
    <3>2. runs[s].k \in 1 .. 4
      BY AtEvent DEF IsRun
    <3>3. Names[runs[s].k] = "sequence" => Numbered(e)
      BY <3>1, <3>2, NamesPlaces DEF Numbered
    <3>4. \A f : Numbered(f)' => Numbered(f)
      BY <2>0, <3>1, NumberedAfter
    <3>5. \A f : <<"sequence", f>> \in processed' => <<"sequence", f>> \in processed \/ Numbered(f)
      BY <3>1, <3>3
    <3>6. QED
      BY <2>1, <3>1, <3>4, <3>5 DEF SequenceNewest
  <2>7. QED
    BY <1>1, <2>3, <2>4, <2>5, <2>6 DEF KindOf
<1>2. CASE Stop
  <2>1. /\ Slots' = Slots /\ Log' = Log
        /\ \A s \in Slots : runs'[s].phase = "check"
        /\ UNCHANGED <<sink, processed>> \/ processed' = {}
    BY <1>2, StopEffect
  <2>2. \A e : ~Numbered(e)'
    BY <2>1 DEF Numbered
  <2>3. QED
    BY <2>1, <2>2 DEF SequenceNewest, sink
<1>3. CASE UNCHANGED vars
  BY <1>3 DEF SequenceNewest, Numbered, vars, sink, Slots, Log
<1>4. QED
  BY <1>1, <1>2, <1>3, StepKinds

LEMMA SequenceInit == Init => SequenceNewest
BY DEF Init, SequenceNewest, Numbered, Done

-----------------------------------------------------------------------------
(* One call at a time *)

OneCall == Cardinality(Slots) = 1

LEMMA OnlySlot ==
    ASSUME Shape, OneCall, NEW s \in Slots, NEW t \in Slots PROVE t = s
<1>1. IsFiniteSet(Slots) /\ Cardinality(Slots) = 1
  BY LogEvents DEF OneCall
<1>2. \E x : Slots = {x}
  BY <1>1, FS_Singleton
<1>3. QED
  BY <1>2

\* What is about to be written is what was read.
ReadFresh ==
    \A s \in Slots : runs[s].phase = "handle" /\ runs[s].k = 1 =>
                        runs[s].read = vehicle[Head(runs[s].todo).client]

Located(e) ==
    \E s \in Slots : runs[s].k = 1 /\ runs[s].phase = "mark" /\ Head(runs[s].todo) = e

FixNewest ==
    \A e \in Log :
        /\ e.type = "location_update"
        /\ <<"vehicle_state", e>> \in processed \/ Located(e)
        => vehicle[e.client].at >= e.time

LocationInv == OneCall => ReadFresh /\ FixNewest

\* A write over what was read never goes back in time.
LEMMA RowRises ==
    ASSUME NEW e, e.time \in Nat, NEW row \in Row
    PROVE  /\ VehicleRow(e, row, row).at >= row.at
           /\ e.type = "location_update" => VehicleRow(e, row, row).at >= e.time
<1>1. row.at \in Nat
  BY DEF Row
<1>2. CASE e.type = "location_update" /\ row.at > e.time
  BY <1>1, <1>2, VehicleRowIs
<1>3. CASE e.type = "location_update" /\ ~(row.at > e.time)
  <2>1. VehicleRow(e, row, row) = [rooms |-> UpsertedRooms(row, row), at |-> e.time]
    BY <1>3, VehicleRowIs
  <2>2. VehicleRow(e, row, row).at = e.time
    BY <2>1
  <2>3. QED
    BY <1>1, <1>3, <2>2
<1>4. CASE e.type \in {"room_joined", "room_left"}
  <2>1. VehicleRow(e, row, row).at = row.at
    BY <1>4, VehicleRowIs
  <2>2. QED
    BY <1>1, <1>4, <2>1
<1>5. CASE e.type \notin {"location_update", "room_joined", "room_left"}
  <2>1. VehicleRow(e, row, row) = row
    BY <1>5, VehicleRowIs
  <2>2. QED
    BY <1>1, <1>5, <2>1
<1>6. QED
  BY <1>2, <1>3, <1>4, <1>5

LEMMA LocationNext ==
    Shape /\ Typed /\ Typed' /\ LocationInv /\ [Next]_vars => LocationInv'
<1> SUFFICES ASSUME Shape, Typed, Typed', LocationInv, [Next]_vars, OneCall' PROVE (ReadFresh /\ FixNewest)'
  BY DEF LocationInv
<1>0. /\ vehicle \in [Clients -> Row]
      /\ \A e \in Log : e.time \in Nat /\ e.client \in Clients
  BY LogEvents DEF Typed
<1>1. ASSUME NEW s \in Slots, NEW run, KindOf(s, run) PROVE (ReadFresh /\ FixNewest)'
  <2>0. Moved(s, run)
    BY <1>1 DEF KindOf, Quits, Fails, Begins, Reads, Handles, Bumps, Marks
  <2>1. /\ Slots' = Slots /\ Log' = Log /\ runs'[s] = run
    BY <2>0, MovedRuns
  <2>2. OneCall /\ ReadFresh /\ FixNewest
    BY <2>1 DEF OneCall, LocationInv
  <2>3. \A t \in Slots : t = s
    BY <2>2, OnlySlot
  <2>4. /\ ReadFresh' <=> (run.phase = "handle" /\ run.k = 1 => run.read = vehicle'[Head(run.todo).client])
        /\ \A f : Located(f)' <=> run.k = 1 /\ run.phase = "mark" /\ Head(run.todo) = f
        /\ \A f : Located(f) <=> runs[s].k = 1 /\ runs[s].phase = "mark" /\ Head(runs[s].todo) = f
    BY <2>1, <2>3 DEF ReadFresh, Located
  <2>5. CASE Quits(s, run) \/ Fails(s, run) \/ Begins(s, run) \/ Reads(s, run)
    <3>1. UNCHANGED <<vehicle, processed>> /\ run.phase # "mark"
      BY <2>5 DEF Quits, Fails, Begins, Reads, sink
    <3>2. run.phase = "handle" /\ run.k = 1 => Reads(s, run)
      BY <2>5 DEF Quits, Fails, Begins
    <3>3. ReadFresh'
      BY <2>4, <3>1, <3>2 DEF Reads
    <3>4. FixNewest'
      BY <2>1, <2>2, <2>4, <3>1 DEF FixNewest
    <3>5. QED
      BY <3>3, <3>4
  <2>6. ASSUME NEW e \in Log, Handles(s, run, e) PROVE (ReadFresh /\ FixNewest)'
    <3>1. /\ run.k = runs[s].k /\ run.todo = runs[s].todo /\ Head(run.todo) = e
          /\ runs[s].phase = "handle" /\ run.phase # "handle" /\ processed' = processed
          /\ vehicle' = IF run.k = 1
                        THEN [vehicle EXCEPT ![e.client] = VehicleRow(e, runs[s].read, vehicle[e.client])]
                        ELSE vehicle
      BY <2>6 DEF Handles
    <3>2. ReadFresh'
      BY <2>4, <3>1
    <3>3. CASE run.k # 1
      <4>1. vehicle' = vehicle
        BY <3>1, <3>3
      <4>2. FixNewest'
        BY <2>1, <2>2, <2>4, <3>1, <3>3, <4>1 DEF FixNewest
      <4>3. QED
        BY <3>2, <4>2
    <3>4. CASE run.k = 1
      <4>1. runs[s].read = vehicle[e.client]
        BY <2>2, <3>1, <3>4 DEF ReadFresh
      <4> DEFINE row == vehicle[e.client]
      <4>2. row \in Row /\ e.client \in Clients /\ e.time \in Nat
        BY <1>0
      <4>3. /\ VehicleRow(e, row, row).at >= row.at
            /\ e.type = "location_update" => VehicleRow(e, row, row).at >= e.time
        BY <4>2, RowRises
      <4>4. /\ vehicle'[e.client] = VehicleRow(e, row, row)
            /\ \A c \in Clients : c # e.client => vehicle'[c] = vehicle[c]
        BY <1>0, <3>1, <3>4, <4>1, <4>2
      <4> HIDE DEF row
      <4>5. \A c \in Clients : vehicle'[c].at \in Nat /\ vehicle[c].at \in Nat
        BY DEF Typed, Row
      <4>6. \A c \in Clients : vehicle'[c].at >= vehicle[c].at
        BY <4>3, <4>4, <4>5 DEF row
      <4>7. ASSUME NEW f \in Log, f.type = "location_update",
                   <<"vehicle_state", f>> \in processed \/ Located(f)'
            PROVE  vehicle'[f.client].at >= f.time
        <5>1. CASE <<"vehicle_state", f>> \in processed
          <6>1. vehicle[f.client].at >= f.time
            BY <2>2, <4>7, <5>1 DEF FixNewest
          <6>2. f.client \in Clients /\ f.time \in Nat
            BY <1>0
          <6>3. QED
            BY <4>5, <4>6, <6>1, <6>2
        <5>2. CASE Located(f)'
          BY <2>4, <3>1, <4>3, <4>4, <4>7, <5>2
        <5>3. QED
          BY <4>7, <5>1, <5>2
      <4>8. FixNewest'
        BY <2>1, <3>1, <4>7 DEF FixNewest
      <4>9. QED
        BY <3>2, <4>8
    <3>5. QED
      BY <3>3, <3>4
  <2>7. ASSUME NEW e \in Log, Bumps(s, run, e) PROVE (ReadFresh /\ FixNewest)'
    <3>1. UNCHANGED <<vehicle, processed>> /\ run.k = 4 /\ run.phase = "mark"
      BY <2>7 DEF Bumps
    <3>2. QED
      BY <2>1, <2>2, <2>4, <3>1 DEF FixNewest
  <2>8. ASSUME NEW e \in Log, Marks(s, run, e) PROVE (ReadFresh /\ FixNewest)'
    <3>1. /\ UNCHANGED vehicle /\ Head(runs[s].todo) = e /\ runs[s].phase = "mark"
          /\ processed' = processed \cup {<<Names[runs[s].k], e>>}
          /\ run.phase # "mark"
          /\ run.phase = "handle" => run.k = runs[s].k + 1
      BY <2>8 DEF Marks, sink
    <3>2. runs[s].k \in 1 .. 4
      BY AtEvent DEF IsRun
    <3>3. Names[runs[s].k] = "vehicle_state" => Located(e)
      BY <2>4, <3>1, <3>2, NamesPlaces
    <3>4. \A f : <<"vehicle_state", f>> \in processed' => <<"vehicle_state", f>> \in processed \/ Located(f)
      BY <3>1, <3>3
    <3>5. FixNewest'
      BY <2>1, <2>2, <2>4, <3>1, <3>4 DEF FixNewest
    <3>6. ~(run.phase = "handle" /\ run.k = 1)
      BY <3>1, <3>2
    <3>7. QED
      BY <2>4, <3>5, <3>6
  <2>9. QED
    BY <1>1, <2>5, <2>6, <2>7, <2>8 DEF KindOf
<1>2. CASE Stop
  <2>1. /\ Slots' = Slots /\ Log' = Log
        /\ \A s \in Slots : runs'[s].phase = "check"
        /\ UNCHANGED <<sink, processed>> \/ processed' = {}
    BY <1>2, StopEffect
  <2>2. OneCall /\ FixNewest
    BY <2>1 DEF OneCall, LocationInv
  <2>3. (\A e : ~Located(e)') /\ ReadFresh'
    BY <2>1 DEF Located, ReadFresh
  <2>4. QED
    BY <2>1, <2>2, <2>3 DEF FixNewest, sink
<1>3. CASE UNCHANGED vars
  BY <1>3 DEF LocationInv, OneCall, ReadFresh, FixNewest, Located, vars, sink, Slots, Log
<1>4. QED
  BY <1>1, <1>2, <1>3, StepKinds

LEMMA LocationInit == Init => LocationInv
BY DEF Init, LocationInv, ReadFresh, FixNewest, Located, Done

\* A newer location, or a newer sequence number, is never overwritten by an older one: with one
\* batch at a time for the vehicle read model, always for the sequence read model, for every log,
\* either sink, every failure and every stop.
THEOREM NewestAlwaysKept == Spec => []NewestKept
<1>1. SequenceNewest /\ LocationInv => NewestKept
  BY DEF SequenceNewest, LocationInv, FixNewest, OneCall, NewestKept, ProcessedBy
<1>2. AppliedInv => Shape
  BY DEF AppliedInv
<1>3. QED
  BY <1>1, <1>2, InitApplied, AppliedNext, TypedInit, TypedNext, SequenceInit, SequenceNext,
     LocationInit, LocationNext, PTL DEF Spec

-----------------------------------------------------------------------------
(* Nothing is applied twice *)

\* The violations table keeps its key.
LEMMA KeyNext ==
    Shape /\ Typed /\ (Durable => IsInjective(violations)) /\ [Next]_vars
      => (Durable => IsInjective(violations))'
<1> SUFFICES ASSUME Shape, Typed, Durable => IsInjective(violations), [Next]_vars, Durable'
             PROVE  IsInjective(violations')
  BY DEF IsInjective
<1>1. ASSUME NEW s \in Slots, NEW run, KindOf(s, run) PROVE IsInjective(violations')
  <2>0. Moved(s, run)
    BY <1>1 DEF KindOf, Quits, Fails, Begins, Reads, Handles, Bumps, Marks
  <2>1. Durable /\ IsInjective(violations)
    BY <2>0, MovedRuns
  <2>2. CASE violations' = violations
    BY <2>1, <2>2
  <2>3. ASSUME NEW e \in Log, violations' = ViolationsAfter(e) PROVE IsInjective(violations')
    <3>1. CASE ViolationsAfter(e) = violations
      BY <2>1, <2>3, <3>1
    <3>2. CASE ViolationsAfter(e) # violations
      <4>1. ViolationsAfter(e) = Append(violations, e.time) /\ ~Contains(violations, e.time)
        BY <2>1, <3>2 DEF ViolationsAfter
      <4>2. PICK S : violations \in Seq(S)
        BY DEF Shape, IsSequence
      <4> DEFINE q == Append(violations, e.time)
      <4>3. violations \in Seq(S \cup {e.time})
        BY <4>2
      <4>4. /\ q \in Seq(S \cup {e.time}) /\ Len(violations) \in Nat
            /\ Len(q) = Len(violations) + 1
            /\ \A i \in 1 .. Len(violations) : q[i] = violations[i]
            /\ q[Len(violations) + 1] = e.time
        BY <4>3
      <4>5. DOMAIN violations = 1 .. Len(violations) /\ DOMAIN q = 1 .. Len(q)
        BY <4>3, <4>4, LenProperties
      <4> HIDE DEF q
      <4>6. \A i \in 1 .. Len(violations) : violations[i] # e.time
        BY <4>1 DEF Contains
      <4>7. \A i \in 1 .. Len(q) : i \in 1 .. Len(violations) \/ i = Len(violations) + 1
        BY <4>4
      <4>8. \A i, j \in 1 .. Len(violations) : violations[i] = violations[j] => i = j
        BY <2>1, <4>5 DEF IsInjective
      <4>9. IsInjective(q)
        BY <4>4, <4>5, <4>6, <4>7, <4>8 DEF IsInjective
      <4>10. QED
        BY <2>3, <4>1, <4>9 DEF q
    <3>3. QED
      BY <3>1, <3>2
  <2>4. QED
    BY <1>1, <2>2, <2>3 DEF KindOf, Quits, Fails, Begins, Reads, Handles, Bumps, Marks, sink
<1>2. CASE Stop
  BY <1>2, StopEffect DEF sink
<1>3. CASE UNCHANGED vars
  BY <1>3 DEF vars, sink, Durable
<1>4. QED
  BY <1>1, <1>2, <1>3, StepKinds

\* One call at a time and nothing fails: an event is marked by the projections in their order,
\* and not yet by the last one while the call is at it.
Steady == OneCall /\ ~SinkFails

AllMarked == \A e \in Log : <<"sequence", e>> \in processed => IsProcessedByAll(e)

InOrder ==
    \A s \in Slots : runs[s].phase # "check" =>
        /\ \A j \in 1 .. 4 : j < runs[s].k => <<Names[j], Head(runs[s].todo)>> \in processed
        /\ <<"sequence", Head(runs[s].todo)>> \notin processed

MarksInv == Steady => AllMarked /\ InOrder

LEMMA ByAll ==
    ASSUME NEW e
    PROVE  /\ IsProcessedByAll(e) <=> \A j \in 1 .. 4 : <<Names[j], e>> \in processed
           /\ IsProcessedByAll(e)' <=> \A j \in 1 .. 4 : <<Names[j], e>> \in processed'
BY NamesPlaces DEF IsProcessedByAll

LEMMA MarksNext ==
    Shape /\ Typed /\ MarksInv /\ [Next]_vars => MarksInv'
<1> SUFFICES ASSUME Shape, Typed, MarksInv, [Next]_vars, Steady' PROVE (AllMarked /\ InOrder)'
  BY DEF MarksInv
<1>1. ASSUME NEW s \in Slots, NEW run, KindOf(s, run) PROVE (AllMarked /\ InOrder)'
  <2>0. Moved(s, run)
    BY <1>1 DEF KindOf, Quits, Fails, Begins, Reads, Handles, Bumps, Marks
  <2>1. /\ Slots' = Slots /\ Log' = Log /\ runs'[s] = run /\ SinkFails' = SinkFails
        /\ IsRun(run) /\ Fine(run, Log)
    BY <2>0, MovedRuns
  <2>2. OneCall /\ ~SinkFails /\ AllMarked /\ InOrder
    BY <2>1 DEF OneCall, Steady, MarksInv
  <2>3. \A t \in Slots : t = s
    BY <2>2, OnlySlot
  <2> DEFINE Here(ru, marked) ==
               ru.phase # "check" =>
                 /\ \A j \in 1 .. 4 : j < ru.k => <<Names[j], Head(ru.todo)>> \in marked
                 /\ <<"sequence", Head(ru.todo)>> \notin marked
  <2>4. (InOrder' <=> Here(run, processed')) /\ (InOrder <=> Here(runs[s], processed))
    BY <2>1, <2>3 DEF InOrder
  <2>5. ASSUME processed' = processed PROVE AllMarked'
    <3>1. \A e : IsProcessedByAll(e)' <=> IsProcessedByAll(e)
      BY <2>5, ByAll
    <3>2. QED
      BY <2>1, <2>2, <2>5, <3>1 DEF AllMarked
  <2>6. CASE Quits(s, run)
    BY <2>4, <2>5, <2>6 DEF Quits
  <2>7. CASE Begins(s, run)
    <3>1. /\ processed' = processed /\ run.k = 1 /\ ~IsProcessedByAll(Head(run.todo))
          /\ run.phase = "read"
      BY <2>7 DEF Begins
    <3>2. Head(run.todo) \in Log
      <4>1. run.todo \in Seq(Log) /\ run.todo # <<>>
        BY <2>1, <3>1 DEF Fine
      <4>2. QED
        BY <4>1, HeadTailProperties
    <3>3. <<"sequence", Head(run.todo)>> \notin processed
      BY <2>2, <3>1, <3>2 DEF AllMarked
    <3>4. Here(run, processed')
      BY <3>1, <3>3
    <3>5. QED
      BY <2>4, <2>5, <3>1, <3>4
  <2>8. CASE \/ Reads(s, run)
             \/ \E e \in Log : Handles(s, run, e) \/ Bumps(s, run, e)
    <3>1. /\ processed' = processed /\ run.todo = runs[s].todo
          /\ runs[s].phase # "check"
          /\ run.k = runs[s].k \/ run.k = 1
      BY <2>8 DEF Reads, Handles, Bumps
    <3>1a. run.k \in 1 .. 4
      BY <2>1 DEF IsRun
    <3>2. Here(run, processed')
      BY <2>2, <2>4, <3>1, <3>1a
    <3>3. QED
      BY <2>4, <2>5, <3>1, <3>2
  <2>9. ASSUME NEW e \in Log, Marks(s, run, e) PROVE (AllMarked /\ InOrder)'
    <3>1. /\ Head(runs[s].todo) = e /\ runs[s].phase = "mark"
          /\ processed' = processed \cup {<<Names[runs[s].k], e>>}
          /\ \/ /\ runs[s].k < 4 /\ run.phase = "handle" /\ run.k = runs[s].k + 1
                /\ run.todo = runs[s].todo
             \/ runs[s].k = 4 /\ run.phase = "check"
      BY <2>9 DEF Marks
    <3>2. runs[s].k \in 1 .. 4
      BY AtEvent DEF IsRun
    <3>3. /\ \A j \in 1 .. 4 : j < runs[s].k => <<Names[j], e>> \in processed
          /\ <<"sequence", e>> \notin processed
      BY <2>2, <2>4, <3>1
    <3>4. CASE runs[s].k < 4
      <4>1. Names[runs[s].k] # "sequence"
        BY <3>2, <3>4, NamesPlaces
      <4>2. \A f : <<"sequence", f>> \in processed' <=> <<"sequence", f>> \in processed
        BY <3>1, <4>1
      <4>3. \A f : IsProcessedByAll(f) => IsProcessedByAll(f)'
        BY <3>1, ByAll
      <4>4. AllMarked'
        BY <2>1, <2>2, <4>2, <4>3 DEF AllMarked
      <4>5. \A j \in 1 .. 4 : j < runs[s].k + 1 => j < runs[s].k \/ j = runs[s].k
        BY <3>2
      <4>6. Here(run, processed')
        BY <3>1, <3>3, <3>4, <4>2, <4>5
      <4>7. QED
        BY <2>4, <4>4, <4>6
    <3>5. CASE runs[s].k = 4
      <4>1. Here(run, processed')
        BY <3>1, <3>5
      <4>2. \A j \in 1 .. 4 : j < 4 \/ j = 4
        OBVIOUS
      <4>3. \A j \in 1 .. 4 : <<Names[j], e>> \in processed'
        BY <3>1, <3>3, <3>5, <4>2
      <4>4. IsProcessedByAll(e)'
        BY <4>3, ByAll
      <4>5. \A f : IsProcessedByAll(f) => IsProcessedByAll(f)'
        BY <3>1, ByAll
      <4>6. \A f : <<"sequence", f>> \in processed' => <<"sequence", f>> \in processed \/ f = e
        BY <3>1
      <4>7. AllMarked'
        BY <2>1, <2>2, <4>4, <4>5, <4>6 DEF AllMarked
      <4>8. QED
        BY <2>4, <4>1, <4>7
    <3>6. QED
      BY <3>2, <3>4, <3>5
  <2>10. ~Fails(s, run)
    BY <2>2 DEF Fails
  <2>11. QED
    BY <1>1, <2>6, <2>7, <2>8, <2>9, <2>10 DEF KindOf
<1>2. CASE Stop
  <2>1. /\ Slots' = Slots /\ Log' = Log /\ SinkFails' = SinkFails
        /\ \A s \in Slots : runs'[s].phase = "check"
        /\ processed' = processed \/ processed' = {}
    BY <1>2, StopEffect
  <2>2. InOrder'
    BY <2>1 DEF InOrder
  <2>3. AllMarked
    BY <2>1 DEF OneCall, Steady, MarksInv
  <2>4. CASE processed' = {}
    BY <2>2, <2>4 DEF AllMarked
  <2>5. CASE processed' = processed
    <3>1. \A e : IsProcessedByAll(e)' <=> IsProcessedByAll(e)
      BY <2>5, ByAll
    <3>2. QED
      BY <2>1, <2>2, <2>3, <2>5, <3>1 DEF AllMarked
  <2>6. QED
    BY <2>1, <2>4, <2>5
<1>3. CASE UNCHANGED vars
  BY <1>3 DEF MarksInv, Steady, OneCall, AllMarked, InOrder, IsProcessedByAll, vars, sink, Slots, Log,
              SinkFails
<1>4. QED
  BY <1>1, <1>2, <1>3, StepKinds

LEMMA MarksInit == Init => MarksInv
BY DEF Init, MarksInv, AllMarked, InOrder, Done

LEMMA KeyInit == Init => (Durable => IsInjective(violations))
BY DEF Init, EmptySink, IsInjective

\* Once nothing fails and the process goes on, an event is either marked by all projections, or
\* the call is at it, or no projection has marked it.
Settled ==
    \A e \in Log, j \in 1 .. 4 :
        <<Names[j], e>> \in processed =>
            \/ <<"sequence", e>> \in processed
            \/ \E s \in Slots : runs[s].phase # "check" /\ Head(runs[s].todo) = e /\ j < runs[s].k

\* Only an event that counts gets to the room counter.
AtCounter == \A s \in Slots : runs[s].phase = "bump" => Counted(Head(runs[s].todo))

Crossed == {e \in Log : /\ Crossing(e)
                        /\ <<"geofence_violations", e>> \in processed \/ e \in AtMark(3)}

CounterExact == \A r \in Rooms : roomSeq[r] = Cardinality(Bumped(r))

ListExact ==
    /\ Len(violations) = Cardinality(Crossed)
    /\ \A i \in 1 .. Len(violations) : \E f \in Crossed : violations[i] = f.time

Undisturbed == Steady /\ ~workload.stops

ExactInv == Undisturbed => Settled /\ AtCounter /\ CounterExact /\ ListExact

\* The only call, before and after its step.
LEMMA OnlyRun ==
    ASSUME Shape, OneCall, NEW s \in Slots, NEW run, Moved(s, run)
    PROVE  /\ Slots' = Slots /\ Log' = Log /\ runs'[s] = run /\ \A t \in Slots : t = s
           /\ \A f \in Log : \A k :
                /\ f \in AtMark(k) <=> runs[s].phase = "mark" /\ runs[s].k = k /\ Head(runs[s].todo) = f
                /\ f \in AtMark(k)' <=> run.phase = "mark" /\ run.k = k /\ Head(run.todo) = f
<1>1. Slots' = Slots /\ Log' = Log /\ runs'[s] = run
  BY MovedRuns
<1>2. \A t \in Slots : t = s
  BY OnlySlot
<1>3. QED
  BY <1>1, <1>2 DEF AtMark

\* How far the only call is decides what it may have marked.
LEMMA SettledStep ==
    ASSUME Shape, Typed, Steady, MarksInv, Settled, NEW s \in Slots, NEW run, KindOf(s, run)
    PROVE  Settled'
<1>0. Moved(s, run)
  BY DEF KindOf, Quits, Fails, Begins, Reads, Handles, Bumps, Marks
<1>1. Slots' = Slots /\ Log' = Log /\ runs'[s] = run /\ \A t \in Slots : t = s
  BY <1>0, OnlyRun DEF Steady
<1> DEFINE Held(ru, marked, e, j) ==
             <<Names[j], e>> \in marked =>
                \/ <<"sequence", e>> \in marked
                \/ ru.phase # "check" /\ Head(ru.todo) = e /\ j < ru.k
<1>2. /\ Settled <=> \A e \in Log, j \in 1 .. 4 : Held(runs[s], processed, e, j)
      /\ Settled' <=> \A e \in Log, j \in 1 .. 4 : Held(run, processed', e, j)
  BY <1>1 DEF Settled
<1>3. IsRun(runs[s]) /\ Fine(runs[s], Log) /\ runs[s].k \in 1 .. 4
  BY AtEvent DEF IsRun
<1>4. CASE Quits(s, run) \/ Begins(s, run) \/ Reads(s, run)
  <2>1. /\ processed' = processed
        /\ runs[s].phase = "check" \/ runs[s].k = 1
    BY <1>3, <1>4 DEF Quits, Begins, Reads, Steady, Fine
  <2>2. \A j \in 1 .. 4 : ~(j < 1)
    OBVIOUS
  <2>3. \A e \in Log, j \in 1 .. 4 : <<Names[j], e>> \in processed => <<"sequence", e>> \in processed
    BY <1>2, <2>1, <2>2
  <2>4. QED
    BY <1>2, <2>1, <2>3
<1>5. CASE \E e \in Log : Handles(s, run, e) \/ Bumps(s, run, e)
  <2>1. /\ processed' = processed /\ run.todo = runs[s].todo /\ run.k = runs[s].k
        /\ runs[s].phase # "check" /\ run.phase # "check"
    BY <1>5 DEF Handles, Bumps
  <2>2. QED
    BY <1>2, <2>1
<1>6. ASSUME NEW e \in Log, Marks(s, run, e) PROVE Settled'
  <2>1. /\ Head(runs[s].todo) = e /\ runs[s].phase = "mark"
        /\ processed' = processed \cup {<<Names[runs[s].k], e>>}
        /\ \/ /\ runs[s].k < 4 /\ run.phase = "handle" /\ run.k = runs[s].k + 1
              /\ run.todo = runs[s].todo
           \/ runs[s].k = 4 /\ run.phase = "check"
    BY <1>6 DEF Marks
  <2>2. \A j \in 1 .. 4 : Names[j] = Names[runs[s].k] => j = runs[s].k
    BY <1>3, NamesPlaces
  <2>3. \A j \in 1 .. 4 : j < runs[s].k + 1 <=> j < runs[s].k \/ j = runs[s].k
    BY <1>3
  <2>4. ASSUME NEW f \in Log, NEW j \in 1 .. 4, <<Names[j], f>> \in processed'
        PROVE  Held(run, processed', f, j)
    <3>1. \/ <<Names[j], f>> \in processed
          \/ j = runs[s].k /\ f = e
      BY <2>1, <2>2, <2>4
    <3>2. Held(runs[s], processed, f, j)
      BY <1>2
    <3>3. CASE runs[s].k < 4
      BY <2>1, <2>3, <3>1, <3>2, <3>3
    <3>4. CASE runs[s].k = 4
      <4>1. <<"sequence", e>> \in processed'
        BY <2>1, <3>4, NamesPlaces
      <4>2. QED
        BY <2>1, <3>1, <3>2, <4>1
    <3>5. QED
      BY <1>3, <3>3, <3>4
  <2>5. QED
    BY <1>2, <2>4
<1>7. ~Fails(s, run)
  BY DEF Steady, Fails
<1>8. QED
  BY <1>4, <1>5, <1>6, <1>7 DEF KindOf

LEMMA AtCounterStep ==
    ASSUME Shape, Steady, AtCounter, NEW s \in Slots, NEW run, KindOf(s, run) PROVE AtCounter'
<1>0. Moved(s, run)
  BY DEF KindOf, Quits, Fails, Begins, Reads, Handles, Bumps, Marks
<1>1. Slots' = Slots /\ runs'[s] = run /\ \A t \in Slots : t = s
  BY <1>0, OnlyRun DEF Steady
<1>2. run.phase = "bump" => Counted(Head(run.todo))
  BY DEF KindOf, Quits, Fails, Begins, Reads, Handles, Bumps, Marks
<1>3. QED
  BY <1>1, <1>2 DEF AtCounter, Counted

LEMMA CrossedFinite ==
    ASSUME Shape PROVE IsFiniteSet(Crossed) /\ Cardinality(Crossed) \in Nat
<1>1. Crossed \subseteq Log
  BY DEF Crossed
<1>2. QED
  BY <1>1, LogFinite, FS_Subset, FS_CardinalityType

\* The events that count are those from before and the one that is counted now.
LEMMA CountedNow ==
    ASSUME Shape, Typed, Steady, MarksInv, Settled, AtCounter,
           NEW s \in Slots, NEW run, KindOf(s, run)
    PROVE  /\ \/ /\ \A r \in Rooms : Bumped(r)' = Bumped(r)
                 /\ roomSeq' = roomSeq
              \/ \E e \in Log : /\ roomSeq' = [roomSeq EXCEPT ![e.room] = @ + 1]
                                /\ \A r : e \notin Bumped(r)
                                /\ Bumped(e.room)' = Bumped(e.room) \cup {e}
                                /\ \A r : r # e.room => Bumped(r)' = Bumped(r)
           /\ \/ Crossed' = Crossed /\ violations' = violations
              \/ \E e \in Log : /\ violations' = ViolationsAfter(e) /\ Crossing(e)
                                /\ e \notin Crossed /\ Crossed' = Crossed \cup {e}
<1>0. Moved(s, run)
  BY DEF KindOf, Quits, Fails, Begins, Reads, Handles, Bumps, Marks
<1>1. /\ Slots' = Slots /\ Log' = Log /\ runs'[s] = run /\ \A t \in Slots : t = s
      /\ \A f \in Log : \A k :
           /\ f \in AtMark(k) <=> runs[s].phase = "mark" /\ runs[s].k = k /\ Head(runs[s].todo) = f
           /\ f \in AtMark(k)' <=> run.phase = "mark" /\ run.k = k /\ Head(run.todo) = f
  BY <1>0, OnlyRun DEF Steady
<1>2. IsRun(runs[s]) /\ Fine(runs[s], Log) /\ runs[s].k \in 1 .. 4
  BY AtEvent DEF IsRun
<1>3. \A f, r : /\ Counted(f)' <=> Counted(f)
                /\ Crossing(f)' <=> Crossing(f)
  BY DEF Counted, Crossing
<1>4. /\ \A r, f : f \in Bumped(r) <=> /\ f \in Log /\ Counted(f) /\ f.room = r
                                       /\ <<"sequence", f>> \in processed \/ f \in AtMark(4)
      /\ \A r, f : f \in Bumped(r)' <=> /\ f \in Log /\ Counted(f) /\ f.room = r
                                        /\ <<"sequence", f>> \in processed' \/ f \in AtMark(4)'
      /\ \A f : f \in Crossed <=> /\ f \in Log /\ Crossing(f)
                                  /\ <<"geofence_violations", f>> \in processed \/ f \in AtMark(3)
      /\ \A f : f \in Crossed' <=> /\ f \in Log /\ Crossing(f)
                                   /\ <<"geofence_violations", f>> \in processed' \/ f \in AtMark(3)'
  BY <1>1, <1>3 DEF Bumped, Crossed
<1>5. ASSUME \A f \in Log : /\ Counted(f) => (<<"sequence", f>> \in processed \/ f \in AtMark(4)
                                              <=> <<"sequence", f>> \in processed' \/ f \in AtMark(4)')
      PROVE  \A r : Bumped(r)' = Bumped(r)
  <2>1. TAKE r
  <2>2. \A f : f \in Bumped(r)' <=> f \in Bumped(r)
    BY <1>4, <1>5, Zenon
  <2>3. QED
    BY <2>2
<1>6. ASSUME \A f \in Log : Crossing(f) =>
                 (<<"geofence_violations", f>> \in processed \/ f \in AtMark(3)
                    <=> <<"geofence_violations", f>> \in processed' \/ f \in AtMark(3)')
      PROVE  Crossed' = Crossed
  BY <1>4, <1>6
<1>7. CASE Quits(s, run) \/ Begins(s, run) \/ Reads(s, run)
  <2>1. /\ processed' = processed /\ roomSeq' = roomSeq /\ violations' = violations
        /\ runs[s].phase # "mark" /\ run.phase # "mark"
    BY <1>7 DEF Quits, Begins, Reads, Steady, sink
  <2>2. \A f \in Log : \A k : f \notin AtMark(k) /\ f \notin AtMark(k)'
    BY <1>1, <2>1
  <2>3. QED
    BY <1>5, <1>6, <2>1, <2>2
<1>8. ASSUME NEW e \in Log, Handles(s, run, e)
      PROVE  /\ \A r : Bumped(r)' = Bumped(r)
             /\ roomSeq' = roomSeq
             /\ \/ Crossed' = Crossed /\ violations' = violations
                \/ \E f \in Log : /\ violations' = ViolationsAfter(f) /\ Crossing(f)
                                  /\ f \notin Crossed /\ Crossed' = Crossed \cup {f}
  <2>1. /\ processed' = processed /\ roomSeq' = roomSeq
        /\ violations' = IF run.k = 3 THEN ViolationsAfter(e) ELSE violations
        /\ run.k = runs[s].k /\ run.todo = runs[s].todo /\ Head(run.todo) = e
        /\ runs[s].phase = "handle"
        /\ run.phase = IF run.k = 4 /\ Counted(e) THEN "bump" ELSE "mark"
    BY <1>8 DEF Handles
  <2>2. \A f \in Log : \A k : /\ f \notin AtMark(k)
                              /\ f \in AtMark(k)' <=> run.phase = "mark" /\ run.k = k /\ f = e
    BY <1>1, <2>1
  <2>3. \A f \in Log : f \in AtMark(4)' => ~Counted(f)
    BY <2>1, <2>2
  <2>4. \A r : Bumped(r)' = Bumped(r)
    BY <1>5, <2>1, <2>2, <2>3
  <2>5. CASE run.k = 3 /\ Crossing(e)
    <3>1. <<"sequence", e>> \notin processed
      BY <2>1 DEF MarksInv, InOrder
    <3>2. <<"geofence_violations", e>> \notin processed
      <4>1. 3 \in 1 .. 4 /\ Names[3] = "geofence_violations" /\ ~(3 < 3)
        BY NamesPlaces
      <4>2. \A t \in Slots : ~(3 < runs[t].k)
        BY <1>1, <2>1, <2>5, <4>1
      <4>3. QED
        BY <3>1, <4>1, <4>2 DEF Settled
    <3>3. e \notin Crossed
      BY <1>4, <2>2, <3>2
    <3>4. run.phase = "mark"
      BY <2>1, <2>5
    <3>5. Crossed' = Crossed \cup {e}
      <4>1. \A f \in Log : f \in AtMark(3)' <=> f = e
        BY <2>2, <2>5, <3>4
      <4>2. \A f : f \in Crossed' <=> f \in Crossed \/ f = e
        <5>1. \A f : f \in Crossed <=> f \in Log /\ Crossing(f) /\ <<"geofence_violations", f>> \in processed
          BY <1>4, <2>2, Zenon
        <5>2. \A f : f \in Crossed' <=> /\ f \in Log /\ Crossing(f)
                                        /\ <<"geofence_violations", f>> \in processed \/ f = e
          BY <1>4, <2>1, <4>1
        <5>3. QED
          BY <2>5, <5>1, <5>2
      <4>3. QED
        BY <4>2
    <3>6. QED
      BY <2>1, <2>4, <2>5, <3>3, <3>5
  <2>6. CASE run.k = 3 /\ ~Crossing(e)
    <3>1. violations' = violations
      BY <2>1, <2>6 DEF ViolationsAfter
    <3>2. \A f \in Log : Crossing(f) => f \notin AtMark(3)'
      BY <2>2, <2>6
    <3>3. Crossed' = Crossed
      BY <1>6, <2>1, <2>2, <3>2
    <3>4. QED
      BY <2>1, <2>4, <3>1, <3>3
  <2>7. CASE run.k # 3
    <3>1. \A f \in Log : f \notin AtMark(3)'
      BY <2>2, <2>7
    <3>2. Crossed' = Crossed
      BY <1>6, <2>1, <2>2, <3>1
    <3>3. QED
      BY <2>1, <2>4, <2>7, <3>2
  <2>8. QED
    BY <2>5, <2>6, <2>7
<1>9. ASSUME NEW e \in Log, Bumps(s, run, e)
      PROVE  /\ Crossed' = Crossed /\ violations' = violations
             /\ \/ /\ \A r : Bumped(r)' = Bumped(r)
                   /\ roomSeq' = roomSeq
                \/ /\ roomSeq' = [roomSeq EXCEPT ![e.room] = @ + 1]
                   /\ \A r : e \notin Bumped(r)
                   /\ Bumped(e.room)' = Bumped(e.room) \cup {e}
                   /\ \A r : r # e.room => Bumped(r)' = Bumped(r)
  <2>1. /\ processed' = processed /\ violations' = violations
        /\ roomSeq' = [roomSeq EXCEPT ![e.room] = @ + 1]
        /\ run.k = 4 /\ runs[s].k = 4 /\ run.todo = runs[s].todo /\ Head(run.todo) = e
        /\ runs[s].phase = "bump" /\ run.phase = "mark"
    BY <1>9 DEF Bumps
  <2>2. \A f \in Log : \A k : /\ f \notin AtMark(k)
                              /\ f \in AtMark(k)' <=> k = 4 /\ f = e
    BY <1>1, <2>1
  <2>3. Crossed' = Crossed
    <3>1. \A f \in Log : f \notin AtMark(3)'
      BY <2>2
    <3>2. QED
      BY <1>6, <2>1, <2>2, <3>1
  <2>4. <<"sequence", e>> \notin processed
    BY <2>1 DEF MarksInv, InOrder
  <2>5. Counted(e)
    BY <2>1 DEF AtCounter
  <2>6. \A r, f : f \in Bumped(r)' <=> f \in Bumped(r) \/ (f = e /\ r = e.room)
    <3>1. \A f \in Log : f \in AtMark(4)' <=> f = e
      BY <2>2
    <3>2. \A r, f : f \in Bumped(r) <=> f \in Log /\ Counted(f) /\ f.room = r /\ <<"sequence", f>> \in processed
      BY <1>4, <2>2, Zenon
    <3>3. \A r, f : f \in Bumped(r)' <=> /\ f \in Log /\ Counted(f) /\ f.room = r
                                         /\ <<"sequence", f>> \in processed \/ f = e
      BY <1>4, <2>1, <3>1
    <3>4. QED
      BY <2>5, <3>2, <3>3
  <2>7. \A r : e \notin Bumped(r)
    BY <1>4, <2>2, <2>4
  <2>8. Bumped(e.room)' = Bumped(e.room) \cup {e}
    BY <2>6
  <2>9. \A r : r # e.room => Bumped(r)' = Bumped(r)
    BY <2>6
  <2>10. QED
    BY <2>1, <2>3, <2>7, <2>8, <2>9
<1>10. ASSUME NEW e \in Log, Marks(s, run, e)
       PROVE  /\ Crossed' = Crossed /\ violations' = violations
              /\ \A r : Bumped(r)' = Bumped(r)
              /\ roomSeq' = roomSeq
  <2>1. /\ Head(runs[s].todo) = e /\ runs[s].phase = "mark" /\ run.phase # "mark"
        /\ processed' = processed \cup {<<Names[runs[s].k], e>>}
        /\ violations' = violations /\ roomSeq' = roomSeq
    BY <1>10 DEF Marks, sink
  <2>2. \A f \in Log : \A k : /\ f \in AtMark(k) <=> runs[s].k = k /\ f = e
                              /\ f \notin AtMark(k)'
    BY <1>1, <2>1
  <2>3. /\ Names[runs[s].k] = "geofence_violations" <=> runs[s].k = 3
        /\ Names[runs[s].k] = "sequence" <=> runs[s].k = 4
    BY <1>2, NamesPlaces
  <2>4. \A f \in Log :
          /\ <<"sequence", f>> \in processed' <=> <<"sequence", f>> \in processed \/ f \in AtMark(4)
          /\ <<"geofence_violations", f>> \in processed' <=>
               <<"geofence_violations", f>> \in processed \/ f \in AtMark(3)
    BY <2>1, <2>2, <2>3
  <2>5. QED
    BY <1>5, <1>6, <2>1, <2>2, <2>4
<1>11. ~Fails(s, run)
  BY DEF Steady, Fails
<1>12. QED
  BY <1>7, <1>8, <1>9, <1>10, <1>11 DEF KindOf

\* The counter and the set of counted events grow together.
LEMMA CounterExactStep ==
    ASSUME Shape, Typed, Steady, MarksInv, Settled, AtCounter, CounterExact,
           NEW s \in Slots, NEW run, KindOf(s, run)
    PROVE  CounterExact'
<1>0. roomSeq \in [Rooms -> Nat]
  BY DEF Shape
<1>1. CASE (\A r \in Rooms : Bumped(r)' = Bumped(r)) /\ roomSeq' = roomSeq
  BY <1>1 DEF CounterExact
<1>2. ASSUME NEW e \in Log, roomSeq' = [roomSeq EXCEPT ![e.room] = @ + 1],
             \A r : e \notin Bumped(r), Bumped(e.room)' = Bumped(e.room) \cup {e},
             \A r : r # e.room => Bumped(r)' = Bumped(r)
      PROVE  CounterExact'
  <2>1. e.room \in Rooms
    BY LogEvents
  <2>2. /\ IsFiniteSet(Bumped(e.room)) /\ Cardinality(Bumped(e.room)) \in Nat
        /\ Cardinality(Bumped(e.room) \cup {e}) = Cardinality(Bumped(e.room)) + 1
    BY <1>2, BumpedFinite, FS_AddElement
  <2>3. ASSUME NEW r \in Rooms PROVE roomSeq'[r] = Cardinality(Bumped(r)')
    <3>0. roomSeq[r] = Cardinality(Bumped(r))
      BY DEF CounterExact
    <3>1. CASE r = e.room
      BY <1>0, <1>2, <2>1, <2>2, <3>0, <3>1
    <3>2. CASE r # e.room
      BY <1>0, <1>2, <2>1, <3>0, <3>2
    <3>3. QED
      BY <3>1, <3>2
  <2>4. QED
    BY <2>3 DEF CounterExact
<1>3. QED
  BY <1>1, <1>2, CountedNow

\* The list and the set of crossings grow together; the key never gets in the way.
LEMMA ListExactStep ==
    ASSUME Shape, Typed, Steady, MarksInv, Settled, AtCounter, ListExact,
           NEW s \in Slots, NEW run, KindOf(s, run)
    PROVE  ListExact'
<1>1. CASE Crossed' = Crossed /\ violations' = violations
  BY <1>1 DEF ListExact
<1>2. ASSUME NEW e \in Log, violations' = ViolationsAfter(e), Crossing(e), e \notin Crossed,
             Crossed' = Crossed \cup {e}
      PROVE  ListExact'
  <2>1. ~Contains(violations, e.time)
    <3>1. \A f \in Crossed : f \in Log
      BY DEF Crossed
    <3>2. \A f \in Crossed : f.time # e.time
      BY <1>2, <3>1, LogEvents
    <3>3. QED
      BY <3>2 DEF ListExact, Contains
  <2>2. violations' = Append(violations, e.time)
    BY <1>2, <2>1 DEF ViolationsAfter
  <2>3. PICK S : violations \in Seq(S)
    BY DEF Shape, IsSequence
  <2> DEFINE q == Append(violations, e.time)
  <2>4. violations \in Seq(S \cup {e.time})
    BY <2>3
  <2>5. /\ Len(violations) \in Nat /\ Len(q) = Len(violations) + 1
        /\ \A i \in 1 .. Len(violations) : q[i] = violations[i]
        /\ q[Len(violations) + 1] = e.time
    BY <2>4
  <2>6. q = violations'
    BY <2>2
  <2> HIDE DEF q
  <2>7. /\ IsFiniteSet(Crossed) /\ Cardinality(Crossed) \in Nat
        /\ Cardinality(Crossed \cup {e}) = Cardinality(Crossed) + 1
    BY <1>2, CrossedFinite, FS_AddElement
  <2>8. Len(q) = Cardinality(Crossed')
    BY <1>2, <2>5, <2>7 DEF ListExact
  <2>9. ASSUME NEW i \in 1 .. Len(q) PROVE \E f \in Crossed' : q[i] = f.time
    <3>1. i \in 1 .. Len(violations) \/ i = Len(violations) + 1
      BY <2>5
    <3>2. CASE i \in 1 .. Len(violations)
      BY <1>2, <2>5, <3>2 DEF ListExact
    <3>3. CASE i = Len(violations) + 1
      BY <1>2, <2>5, <3>3
    <3>4. QED
      BY <3>1, <3>2, <3>3
  <2>10. QED
    BY <2>6, <2>8, <2>9 DEF ListExact
<1>3. QED
  BY <1>1, <1>2, CountedNow

LEMMA ExactNext ==
    Shape /\ Typed /\ MarksInv /\ ExactInv /\ [Next]_vars => ExactInv'
<1> SUFFICES ASSUME Shape, Typed, MarksInv, ExactInv, [Next]_vars, Undisturbed'
             PROVE  (Settled /\ AtCounter /\ CounterExact /\ ListExact)'
  BY DEF ExactInv
<1>1. ASSUME NEW s \in Slots, NEW run, KindOf(s, run)
      PROVE  (Settled /\ AtCounter /\ CounterExact /\ ListExact)'
  <2>0. Moved(s, run)
    BY <1>1 DEF KindOf, Quits, Fails, Begins, Reads, Handles, Bumps, Marks
  <2>1. Undisturbed
    BY <2>0, MovedRuns DEF Undisturbed, Steady, OneCall
  <2>2. Steady /\ Settled /\ AtCounter /\ CounterExact /\ ListExact
    BY <2>1 DEF ExactInv, Undisturbed
  <2>3. QED
    BY <1>1, <2>2, SettledStep, AtCounterStep, CounterExactStep, ListExactStep
<1>2. CASE Stop
  BY <1>2, StopEffect DEF Undisturbed
<1>3. CASE UNCHANGED vars
  <2>1. UNCHANGED <<workload, runs, processed, violations, roomSeq>>
    BY <1>3 DEF vars, sink
  <2>2. Slots' = Slots /\ Log' = Log /\ Undisturbed
    BY <2>1 DEF Slots, Log, Undisturbed, Steady, OneCall, SinkFails
  <2>3. \A k : AtMark(k)' = AtMark(k)
    BY <2>1, <2>2 DEF AtMark
  <2>4. Crossed' = Crossed /\ \A r : Bumped(r)' = Bumped(r)
    BY <2>1, <2>2, <2>3 DEF Crossed, Bumped, Crossing, Counted
  <2>5. Settled /\ AtCounter /\ CounterExact /\ ListExact
    BY <2>2 DEF ExactInv
  <2>6. Settled' /\ AtCounter'
    BY <2>1, <2>2, <2>5 DEF Settled, AtCounter, Counted
  <2>7. CounterExact' /\ ListExact'
    BY <2>1, <2>2, <2>4, <2>5 DEF CounterExact, ListExact
  <2>8. QED
    BY <2>6, <2>7
<1>4. QED
  BY <1>1, <1>2, <1>3, StepKinds

LEMMA ExactInit == Init => ExactInv
<1> SUFFICES ASSUME Init PROVE Settled /\ AtCounter /\ CounterExact /\ ListExact
  BY DEF ExactInv
<1>1. /\ runs = [s \in Slots |-> Done] /\ processed = {} /\ violations = <<>>
      /\ roomSeq = [r \in Rooms |-> 0]
  BY DEF Init, EmptySink
<1>2. \A s \in Slots : runs[s].phase = "check"
  BY <1>1 DEF Done
<1>3. \A k : AtMark(k) = {}
  BY <1>2 DEF AtMark
<1>4. Crossed = {} /\ \A r : Bumped(r) = {}
  BY <1>1, <1>3 DEF Crossed, Bumped
<1>5. Settled /\ AtCounter
  BY <1>1, <1>2 DEF Settled, AtCounter
<1>6. CounterExact
  BY <1>1, <1>4, FS_EmptySet DEF CounterExact
<1>7. ListExact
  <2>1. Len(violations) = 0
    BY <1>1
  <2>2. QED
    BY <1>4, <2>1, FS_EmptySet DEF ListExact
<1>8. QED
  BY <1>5, <1>6, <1>7

\* With no call under way what is counted is what is marked.
LEMMA ExactWhenQuiet ==
    ASSUME Durable => IsInjective(violations), ExactInv PROVE AppliedOnce
<1>1. ASSUME Quiet, Undisturbed
      PROVE  /\ \A r \in Rooms : roomSeq[r] =
                    Cardinality({e \in ProcessedBy("sequence") : Counted(e) /\ e.room = r})
             /\ Len(violations) = Cardinality({e \in ProcessedBy("geofence_violations") : Crossing(e)})
  <2>1. \A s \in Slots : runs[s].phase = "check"
    BY <1>1 DEF Quiet, Done
  <2>2. \A k : AtMark(k) = {}
    BY <2>1 DEF AtMark
  <2>3. \A r : Bumped(r) = {e \in ProcessedBy("sequence") : Counted(e) /\ e.room = r}
    BY <2>2 DEF Bumped, ProcessedBy
  <2>4. Crossed = {e \in ProcessedBy("geofence_violations") : Crossing(e)}
    BY <2>2 DEF Crossed, ProcessedBy
  <2>5. CounterExact /\ ListExact
    BY <1>1 DEF ExactInv
  <2>6. QED
    BY <2>3, <2>4, <2>5 DEF CounterExact, ListExact
<1>2. QED
  BY <1>1 DEF AppliedOnce, Undisturbed, Steady, OneCall

\* The key of the violations table holds whatever happens; and as long as nothing fails, the
\* process goes on and calls come one after the other, room counters and violations count every
\* marked event exactly once, for every log and either sink, however the batches overlap.
THEOREM AlwaysAppliedOnce == Spec => []AppliedOnce
<1>1. AppliedInv => Shape
  BY DEF AppliedInv
<1>2. (Durable => IsInjective(violations)) /\ ExactInv => AppliedOnce
  BY ExactWhenQuiet
<1>3. QED
  BY <1>1, <1>2, InitApplied, AppliedNext, TypedInit, TypedNext, KeyInit, KeyNext, MarksInit,
     MarksNext, ExactInit, ExactNext, PTL DEF Spec

-----------------------------------------------------------------------------
(* The two read models of membership *)

RoomEvent(e) == e.type \in {"room_joined", "room_left"}

Agree(c, r) == r \in RoomsOf(vehicle[c]) <=> c \in members[r]

\* The call has brought the event to both read models.
Past(run) == run.phase # "check" /\ (run.k > 2 \/ (run.k = 2 /\ run.phase = "mark"))

\* The call has brought the event to the first read model alone.
Between(run) == (run.k = 1 /\ run.phase = "mark") \/ (run.k = 2 /\ run.phase = "handle")

HalfWay ==
    \A s \in Slots : Between(runs[s]) /\ RoomEvent(Head(runs[s].todo)) =>
        LET e == Head(runs[s].todo)
        IN  e.room \in RoomsOf(vehicle[e.client]) <=> e.type = "room_joined"

\* An event of the pair that has still to go to both of them in full.
Pending(e, c, r) ==
    /\ RoomEvent(e) /\ e.client = c /\ e.room = r
    /\ <<"sequence", e>> \notin processed
    /\ \A s \in Slots : ~(Past(runs[s]) /\ Head(runs[s].todo) = e)

\* Where the two differ, an event of the pair is still to come, again or for the first time.
DifferenceExplained ==
    \A c \in Clients, r \in Rooms : Agree(c, r) \/ \E e \in Log : Pending(e, c, r)

AgreeInv == Steady => HalfWay /\ DifferenceExplained

\* What a write over a row that was just read makes of its rooms.
LEMMA RoomsAfter ==
    ASSUME NEW e, e.time \in Nat, e.room \in Rooms, NEW row \in Row, NEW r
    PROVE  r \in RoomsOf(VehicleRow(e, row, row)) <=>
               IF RoomEvent(e) /\ r = e.room THEN e.type = "room_joined" ELSE r \in RoomsOf(row)
<1>1. row.at \in Nat /\ row.rooms \in (SUBSET Rooms) \cup {NoRooms}
  BY DEF Row
<1>2. RoomsOf(row) \in SUBSET Rooms
  BY <1>1 DEF RoomsOf
<1>3. CASE e.type = "location_update" /\ row.at > e.time
  BY <1>3, VehicleRowIs DEF RoomEvent
<1>4. CASE e.type = "location_update" /\ ~(row.at > e.time)
  <2> DEFINE left == UpsertedRooms(row, row)
  <2>1. VehicleRow(e, row, row) = [rooms |-> left, at |-> e.time]
    BY <1>4, VehicleRowIs
  <2>2. left = row.rooms \/ (row.rooms = NoRooms /\ left = {})
    BY DEF UpsertedRooms
  <2> HIDE DEF left
  <2>3. VehicleRow(e, row, row).rooms = left
    BY <2>1
  <2>4. RoomsOf(VehicleRow(e, row, row)) = RoomsOf(row)
    BY <2>2, <2>3 DEF RoomsOf
  <2>5. QED
    BY <1>4, <2>4 DEF RoomEvent
<1>5. CASE e.type = "room_joined"
  <2> DEFINE left == RoomsOf(row) \cup {e.room}
             at == IF row.at = 0 THEN row.at ELSE row.at
  <2>1. VehicleRow(e, row, row) = [rooms |-> left, at |-> at]
    BY <1>5, VehicleRowIs
  <2>2. left \in SUBSET Rooms /\ (r \in left <=> r \in RoomsOf(row) \/ r = e.room)
    BY <1>2
  <2> HIDE DEF left, at
  <2>3. VehicleRow(e, row, row).rooms = left
    BY <2>1
  <2>4. RoomsOf(VehicleRow(e, row, row)) = left
    BY <2>2, <2>3, NoRoomsAssumption DEF RoomsOf
  <2>5. QED
    BY <1>5, <2>2, <2>4 DEF RoomEvent
<1>6. CASE e.type = "room_left"
  <2> DEFINE left == RoomsOf(row) \ {e.room}
             at == IF row.at = 0 THEN row.at ELSE row.at
  <2>1. VehicleRow(e, row, row) = [rooms |-> left, at |-> at]
    BY <1>6, VehicleRowIs
  <2>2. left \in SUBSET Rooms /\ (r \in left <=> r \in RoomsOf(row) /\ r # e.room)
    BY <1>2
  <2> HIDE DEF left, at
  <2>3. VehicleRow(e, row, row).rooms = left
    BY <2>1
  <2>4. RoomsOf(VehicleRow(e, row, row)) = left
    BY <2>2, <2>3, NoRoomsAssumption DEF RoomsOf
  <2>5. QED
    BY <1>6, <2>2, <2>4 DEF RoomEvent
<1>7. CASE e.type \notin {"location_update", "room_joined", "room_left"}
  BY <1>7, VehicleRowIs DEF RoomEvent
<1>8. QED
  BY <1>3, <1>4, <1>5, <1>6, <1>7

\* What the event makes of the members.
LEMMA MembersAre ==
    ASSUME Typed, NEW e, e.room \in Rooms, NEW c \in Clients, NEW r \in Rooms
    PROVE  c \in MembersAfter(e)[r] <=>
               IF RoomEvent(e) /\ r = e.room /\ c = e.client THEN e.type = "room_joined"
               ELSE c \in members[r]
<1>1. members \in [Rooms -> SUBSET Clients]
  BY DEF Typed
<1>2. CASE e.type = "room_joined"
  <2>1. MembersAfter(e) = [members EXCEPT ![e.room] = @ \cup {e.client}]
    BY <1>2 DEF MembersAfter
  <2>2. QED
    BY <1>1, <1>2, <2>1 DEF RoomEvent
<1>3. CASE e.type = "room_left"
  <2>1. MembersAfter(e) = [members EXCEPT ![e.room] = @ \ {e.client}]
    BY <1>3 DEF MembersAfter
  <2>2. QED
    BY <1>1, <1>3, <2>1 DEF RoomEvent
<1>4. CASE e.type # "room_joined" /\ e.type # "room_left"
  BY <1>1, <1>4 DEF MembersAfter, RoomEvent
<1>5. QED
  BY <1>2, <1>3, <1>4

\* With one call the invariant is about its run alone.
Half(run, rows) ==
    Between(run) /\ RoomEvent(Head(run.todo)) =>
        (Head(run.todo).room \in RoomsOf(rows[Head(run.todo).client])
            <=> Head(run.todo).type = "room_joined")

Comes(run, marked, e, c, r) ==
    /\ RoomEvent(e) /\ e.client = c /\ e.room = r
    /\ <<"sequence", e>> \notin marked /\ ~(Past(run) /\ Head(run.todo) = e)

\* An event is still to come unless it is marked now or the call is past it now.
LEMMA StillComes ==
    ASSUME NEW old, NEW new, NEW before, NEW after, NEW e, NEW c, NEW r,
           Comes(old, before, e, c, r),
           <<"sequence", e>> \notin after, ~(Past(new) /\ Head(new.todo) = e)
    PROVE  Comes(new, after, e, c, r)
BY DEF Comes

LEMMA OneCallAgrees ==
    ASSUME Shape, OneCall, NEW s \in Slots, NEW run, Moved(s, run)
    PROVE  /\ HalfWay <=> Half(runs[s], vehicle)
           /\ HalfWay' <=> Half(run, vehicle')
           /\ \A e, c, r : Pending(e, c, r) <=> Comes(runs[s], processed, e, c, r)
           /\ \A e, c, r : Pending(e, c, r)' <=> Comes(run, processed', e, c, r)
<1>1. Slots' = Slots /\ runs'[s] = run /\ \A t \in Slots : t = s
  BY OnlyRun
<1>2. HalfWay <=> Half(runs[s], vehicle)
  BY <1>1 DEF HalfWay, Half
<1>3. HalfWay' <=> Half(run, vehicle')
  BY <1>1 DEF HalfWay, Half, Between, RoomEvent, RoomsOf
<1>4. \A e, c, r : Pending(e, c, r) <=> Comes(runs[s], processed, e, c, r)
  BY <1>1 DEF Pending, Comes
<1>5. \A e, c, r : Pending(e, c, r)' <=> Comes(run, processed', e, c, r)
  BY <1>1 DEF Pending, Comes, Past, RoomEvent
<1>6. QED
  BY <1>2, <1>3, <1>4, <1>5

\* A step that leaves both read models alone and keeps what is to come.
LEMMA AgreeKept ==
    ASSUME Shape, OneCall, DifferenceExplained, NEW s \in Slots, NEW run, Moved(s, run),
           UNCHANGED <<vehicle, members>>,
           \A e, c, r : Pending(e, c, r) => Pending(e, c, r)'
    PROVE  DifferenceExplained'
<1>1. Log' = Log
  BY MovedRuns
<1>2. \A c, r : Agree(c, r) => Agree(c, r)'
  BY DEF Agree, RoomsOf
<1>3. QED
  BY <1>1, <1>2 DEF DifferenceExplained

\* Handling an event by the first projection: the pair may differ now, and the event is to come.
LEMMA VehicleHandled ==
    ASSUME Shape, Typed, Steady, MarksInv, LocationInv, DifferenceExplained,
           NEW s \in Slots, NEW run, NEW e \in Log, Handles(s, run, e), run.k = 1
    PROVE  (HalfWay /\ DifferenceExplained)'
<1>0. Moved(s, run) /\ OneCall
  BY DEF Handles, Steady
<1>1. Slots' = Slots /\ Log' = Log /\ runs'[s] = run /\ \A t \in Slots : t = s
  BY <1>0, OnlyRun
<1>2. /\ processed' = processed /\ members' = members
      /\ run.todo = runs[s].todo /\ Head(run.todo) = e /\ runs[s].k = 1
      /\ runs[s].phase = "handle" /\ run.phase = "mark"
      /\ vehicle' = [vehicle EXCEPT ![e.client] = VehicleRow(e, runs[s].read, vehicle[e.client])]
  BY DEF Handles
<1>3. runs[s].read = vehicle[e.client]
  BY <1>0, <1>2 DEF LocationInv, ReadFresh
<1>4. e.time \in Nat /\ e.client \in Clients /\ e.room \in Rooms
  BY LogEvents
<1>5. vehicle \in [Clients -> Row] /\ vehicle[e.client] \in Row
  BY <1>4 DEF Typed
<1> DEFINE row == vehicle[e.client]
<1>6. /\ vehicle'[e.client] = VehicleRow(e, row, row)
      /\ \A c \in Clients : c # e.client => vehicle'[c] = vehicle[c]
  BY <1>2, <1>3, <1>4, <1>5
<1>7. \A r : r \in RoomsOf(VehicleRow(e, row, row)) <=>
               IF RoomEvent(e) /\ r = e.room THEN e.type = "room_joined" ELSE r \in RoomsOf(row)
  BY <1>4, <1>5, RoomsAfter
<1> HIDE DEF row
<1>8. Half(run, vehicle')
  BY <1>2, <1>6, <1>7 DEF Half
<1>9. /\ HalfWay' <=> Half(run, vehicle')
      /\ \A f, c, r : Pending(f, c, r) <=> Comes(runs[s], processed, f, c, r)
      /\ \A f, c, r : Pending(f, c, r)' <=> Comes(run, processed', f, c, r)
  BY <1>0, OneCallAgrees
<1>10. ~Past(run)
  BY <1>2 DEF Past
<1>11. \A f, c, r : Pending(f, c, r) => Pending(f, c, r)'
  <2> SUFFICES ASSUME NEW f, NEW c, NEW r, Pending(f, c, r) PROVE Pending(f, c, r)'
    OBVIOUS
  <2>1. Comes(runs[s], processed, f, c, r)
    BY <1>9
  <2>2. <<"sequence", f>> \notin processed'
    BY <1>2, <2>1 DEF Comes
  <2>3. Comes(run, processed', f, c, r)
    BY <1>10, <2>1, <2>2, StillComes
  <2>4. QED
    BY <1>9, <2>3
<1>12. <<"sequence", e>> \notin processed
  BY <1>2 DEF MarksInv, InOrder
<1>13. ASSUME NEW c \in Clients, NEW r \in Rooms, ~(\E f \in Log : Pending(f, c, r)')
       PROVE  Agree(c, r)'
  <2>1. Agree(c, r)
    BY <1>11, <1>13 DEF DifferenceExplained
  <2>2. ~(RoomEvent(e) /\ e.client = c /\ e.room = r)
    BY <1>2, <1>9, <1>10, <1>12, <1>13 DEF Comes
  <2>3. r \in RoomsOf(vehicle'[c]) <=> r \in RoomsOf(vehicle[c])
    <3>1. CASE c = e.client
      BY <1>6, <1>7, <2>2, <3>1 DEF row
    <3>2. CASE c # e.client
      BY <1>6, <3>2
    <3>3. QED
      BY <3>1, <3>2
  <2>4. QED
    BY <1>2, <2>1, <2>3 DEF Agree, RoomsOf
<1>14. DifferenceExplained'
  BY <1>1, <1>13 DEF DifferenceExplained
<1>15. QED
  BY <1>8, <1>9, <1>14

\* Handling an event by the second projection: the pair agrees on what the event says.
LEMMA MembersHandled ==
    ASSUME Shape, Typed, Steady, HalfWay, DifferenceExplained,
           NEW s \in Slots, NEW run, NEW e \in Log, Handles(s, run, e), run.k = 2
    PROVE  (HalfWay /\ DifferenceExplained)'
<1>0. Moved(s, run) /\ OneCall
  BY DEF Handles, Steady
<1>1. Slots' = Slots /\ Log' = Log /\ runs'[s] = run /\ \A t \in Slots : t = s
  BY <1>0, OnlyRun
<1>2. /\ processed' = processed /\ vehicle' = vehicle /\ members' = MembersAfter(e)
      /\ run.todo = runs[s].todo /\ Head(run.todo) = e /\ runs[s].k = 2
      /\ runs[s].phase = "handle" /\ run.phase = "mark"
  BY DEF Handles
<1>3. e.room \in Rooms /\ e.client \in Clients
  BY LogEvents
<1>4. \A c \in Clients, r \in Rooms :
        c \in members'[r] <=> IF RoomEvent(e) /\ r = e.room /\ c = e.client THEN e.type = "room_joined"
                              ELSE c \in members[r]
  BY <1>2, <1>3, MembersAre
<1>5. /\ HalfWay' <=> Half(run, vehicle')
      /\ HalfWay <=> Half(runs[s], vehicle)
      /\ \A f, c, r : Pending(f, c, r) <=> Comes(runs[s], processed, f, c, r)
      /\ \A f, c, r : Pending(f, c, r)' <=> Comes(run, processed', f, c, r)
  BY <1>0, OneCallAgrees
<1>6. HalfWay'
  BY <1>2, <1>5 DEF Half, Between
<1>7. RoomEvent(e) => (e.room \in RoomsOf(vehicle[e.client]) <=> e.type = "room_joined")
  BY <1>2, <1>5 DEF Half, Between
<1>8. ~Past(runs[s])
  BY <1>2 DEF Past
<1>9. \A f, c, r : Pending(f, c, r) /\ f # e => Pending(f, c, r)'
  <2> SUFFICES ASSUME NEW f, NEW c, NEW r, Pending(f, c, r), f # e PROVE Pending(f, c, r)'
    OBVIOUS
  <2>1. Comes(runs[s], processed, f, c, r)
    BY <1>5
  <2>2. <<"sequence", f>> \notin processed'
    BY <1>2, <2>1 DEF Comes
  <2>3. Comes(run, processed', f, c, r)
    BY <1>2, <2>1, <2>2, StillComes
  <2>4. QED
    BY <1>5, <2>3
<1>10. ASSUME NEW c \in Clients, NEW r \in Rooms
       PROVE  Agree(c, r)' \/ \E f \in Log : Pending(f, c, r)'
  <2>0. Agree(c, r)' <=> (r \in RoomsOf(vehicle[c]) <=> c \in members'[r])
    BY <1>2 DEF Agree, RoomsOf
  <2>1. CASE RoomEvent(e) /\ r = e.room /\ c = e.client
    BY <1>4, <1>7, <2>0, <2>1
  <2>2. CASE ~(RoomEvent(e) /\ r = e.room /\ c = e.client)
    <3>1. CASE Agree(c, r)
      BY <1>4, <2>0, <2>2, <3>1 DEF Agree
    <3>2. ASSUME NEW f \in Log, Pending(f, c, r) PROVE \E g \in Log : Pending(g, c, r)'
      <4>1. f # e
        BY <2>2, <3>2 DEF Pending
      <4>2. QED
        BY <1>9, <3>2, <4>1
    <3>3. QED
      BY <3>1, <3>2 DEF DifferenceExplained
  <2>3. QED
    BY <2>1, <2>2
<1>11. DifferenceExplained'
  BY <1>1, <1>10 DEF DifferenceExplained
<1>12. QED
  BY <1>6, <1>11

\* The other steps leave both read models alone and pass no event that is still to come.
LEMMA OthersAgree ==
    ASSUME Shape, Typed, Steady, HalfWay, DifferenceExplained,
           NEW s \in Slots, NEW run, KindOf(s, run), UNCHANGED <<vehicle, members>>,
           Between(run) => Between(runs[s]) /\ run.todo = runs[s].todo,
           \A f : /\ <<"sequence", f>> \in processed' =>
                        <<"sequence", f>> \in processed \/ (Past(runs[s]) /\ Head(runs[s].todo) = f)
                  /\ Past(run) /\ Head(run.todo) = f => Past(runs[s]) /\ Head(runs[s].todo) = f
    PROVE  (HalfWay /\ DifferenceExplained)'
<1>0. Moved(s, run) /\ OneCall
  BY DEF KindOf, Quits, Fails, Begins, Reads, Handles, Bumps, Marks, Steady
<1>1. /\ HalfWay' <=> Half(run, vehicle')
      /\ HalfWay <=> Half(runs[s], vehicle)
      /\ \A f, c, r : Pending(f, c, r) <=> Comes(runs[s], processed, f, c, r)
      /\ \A f, c, r : Pending(f, c, r)' <=> Comes(run, processed', f, c, r)
  BY <1>0, OneCallAgrees
<1>2. HalfWay'
  BY <1>1 DEF Half
<1>3. ASSUME NEW f, NEW c, NEW r, Pending(f, c, r) PROVE Pending(f, c, r)'
  <2>1. Comes(runs[s], processed, f, c, r)
    BY <1>1, <1>3
  <2>2. <<"sequence", f>> \notin processed' /\ ~(Past(run) /\ Head(run.todo) = f)
    BY <2>1 DEF Comes
  <2>3. Comes(run, processed', f, c, r)
    BY <2>1, <2>2, StillComes
  <2>4. QED
    BY <1>1, <2>3
<1>4. \A f, c, r : Pending(f, c, r) => Pending(f, c, r)'
  BY <1>3
<1>5. DifferenceExplained'
  BY <1>0, <1>4, AgreeKept
<1>6. QED
  BY <1>2, <1>5

LEMMA AgreeStep ==
    ASSUME Shape, Typed, Steady, MarksInv, LocationInv, HalfWay, DifferenceExplained,
           NEW s \in Slots, NEW run, KindOf(s, run)
    PROVE  (HalfWay /\ DifferenceExplained)'
<1>1. runs[s].k \in 1 .. 4
  BY AtEvent DEF IsRun
<1>2. CASE Quits(s, run) \/ Begins(s, run) \/ Reads(s, run)
  <2>1. UNCHANGED <<vehicle, members, processed>>
    BY <1>2 DEF Quits, Begins, Reads, sink
  <2>2. run.phase = "check" \/ (run.k = 1 /\ run.phase # "mark")
    BY <1>2 DEF Quits, Begins, Reads
  <2>3. IsRun(run) /\ Fine(run, Log)
    BY <1>2 DEF Quits, Begins, Reads, Moved
  <2>4. ~Between(run) /\ ~Past(run)
    BY <2>2, <2>3 DEF Between, Past, Fine
  <2>5. QED
    BY <2>1, <2>4, OthersAgree
<1>3. ASSUME NEW e \in Log, Handles(s, run, e) PROVE (HalfWay /\ DifferenceExplained)'
  <2>1. CASE run.k = 1
    BY <1>3, <2>1, VehicleHandled
  <2>2. CASE run.k = 2
    BY <1>3, <2>2, MembersHandled
  <2>3. CASE run.k # 1 /\ run.k # 2
    <3>1. /\ UNCHANGED <<vehicle, members, processed>> /\ run.todo = runs[s].todo
          /\ run.k = runs[s].k /\ runs[s].phase = "handle"
      BY <1>3, <2>3 DEF Handles
    <3>2. ~Between(run) /\ Past(runs[s])
      BY <1>1, <2>3, <3>1 DEF Between, Past
    <3>3. QED
      BY <3>1, <3>2, OthersAgree
  <2>4. QED
    BY <2>1, <2>2, <2>3
<1>4. ASSUME NEW e \in Log, Bumps(s, run, e) PROVE (HalfWay /\ DifferenceExplained)'
  <2>1. /\ UNCHANGED <<vehicle, members, processed>> /\ run.todo = runs[s].todo
        /\ run.k = 4 /\ runs[s].k = 4 /\ runs[s].phase = "bump"
    BY <1>4 DEF Bumps
  <2>2. ~Between(run) /\ Past(runs[s])
    BY <2>1 DEF Between, Past
  <2>3. QED
    BY <2>1, <2>2, OthersAgree
<1>5. ASSUME NEW e \in Log, Marks(s, run, e) PROVE (HalfWay /\ DifferenceExplained)'
  <2>1. /\ Head(runs[s].todo) = e /\ runs[s].phase = "mark"
        /\ processed' = processed \cup {<<Names[runs[s].k], e>>}
        /\ \/ /\ runs[s].k < 4 /\ run.phase = "handle" /\ run.k = runs[s].k + 1
              /\ run.todo = runs[s].todo
           \/ runs[s].k = 4 /\ run.phase = "check"
        /\ UNCHANGED <<vehicle, members>>
    BY <1>5 DEF Marks, sink
  <2>2. IsRun(run) /\ Fine(run, Log)
    BY <1>5 DEF Marks, Moved
  <2>3. Between(run) => Between(runs[s]) /\ run.todo = runs[s].todo
    BY <1>1, <2>1, <2>2 DEF Between, Fine
  <2>4. Past(run) => Past(runs[s]) /\ run.todo = runs[s].todo
    BY <1>1, <2>1 DEF Past
  <2>5. Names[runs[s].k] = "sequence" => Past(runs[s])
    BY <1>1, <2>1, NamesPlaces DEF Past
  <2>6. \A f : <<"sequence", f>> \in processed' =>
                  <<"sequence", f>> \in processed \/ (Past(runs[s]) /\ Head(runs[s].todo) = f)
    BY <2>1, <2>5
  <2>7. QED
    BY <2>1, <2>3, <2>4, <2>6, OthersAgree
<1>6. ~Fails(s, run)
  BY DEF Steady, Fails
<1>7. QED
  BY <1>2, <1>3, <1>4, <1>5, <1>6 DEF KindOf

LEMMA AgreeNext ==
    Shape /\ Typed /\ MarksInv /\ LocationInv /\ AgreeInv /\ [Next]_vars => AgreeInv'
<1> SUFFICES ASSUME Shape, Typed, MarksInv, LocationInv, AgreeInv, [Next]_vars, Steady'
             PROVE  (HalfWay /\ DifferenceExplained)'
  BY DEF AgreeInv
<1>1. ASSUME NEW s \in Slots, NEW run, KindOf(s, run) PROVE (HalfWay /\ DifferenceExplained)'
  <2>1. Moved(s, run)
    BY <1>1 DEF KindOf, Quits, Fails, Begins, Reads, Handles, Bumps, Marks
  <2>2. Steady
    BY <2>1, MovedRuns DEF Steady, OneCall
  <2>3. QED
    BY <1>1, <2>2, AgreeStep DEF AgreeInv
<1>2. CASE Stop
  <2>1. /\ Slots' = Slots /\ Log' = Log /\ SinkFails' = SinkFails
        /\ \A s \in Slots : runs'[s].phase = "check" /\ Fine(runs'[s], Log)
        /\ \/ UNCHANGED <<sink, processed>>
           \/ vehicle' = [c \in Clients |-> NoRow] /\ members' = [r \in Rooms |-> {}]
    BY <1>2, StopEffect
  <2>2. HalfWay /\ DifferenceExplained
    BY <2>1 DEF AgreeInv, Steady, OneCall
  <2>3. \A s \in Slots : ~Between(runs'[s]) /\ ~Past(runs'[s])
    BY <2>1 DEF Between, Past, Fine
  <2>4. HalfWay'
    BY <2>1, <2>3 DEF HalfWay, Between
  <2>5. CASE UNCHANGED <<sink, processed>>
    <3>1. \A c, r : Agree(c, r) => Agree(c, r)'
      BY <2>5 DEF Agree, RoomsOf, sink
    <3>2. \A f, c, r : Pending(f, c, r) => Pending(f, c, r)'
      BY <2>1, <2>3, <2>5 DEF Pending, RoomEvent, Past
    <3>3. DifferenceExplained'
      BY <2>1, <2>2, <3>1, <3>2 DEF DifferenceExplained
    <3>4. QED
      BY <2>4, <3>3
  <2>6. CASE vehicle' = [c \in Clients |-> NoRow] /\ members' = [r \in Rooms |-> {}]
    <3>1. RoomsOf(NoRow) = {}
      BY DEF RoomsOf, NoRow
    <3>2. \A c \in Clients, r \in Rooms : Agree(c, r)'
      BY <2>6, <3>1 DEF Agree, RoomsOf
    <3>3. QED
      BY <2>4, <3>2 DEF DifferenceExplained
  <2>7. QED
    BY <2>1, <2>5, <2>6
<1>3. CASE UNCHANGED vars
  <2>1. UNCHANGED <<workload, runs, processed, vehicle, members>>
    BY <1>3 DEF vars, sink
  <2>2. Slots' = Slots /\ Log' = Log /\ HalfWay /\ DifferenceExplained
    BY <2>1 DEF Slots, Log, Steady, OneCall, SinkFails, AgreeInv
  <2>3. HalfWay'
    BY <2>1, <2>2 DEF HalfWay, Between, RoomEvent, RoomsOf
  <2>4. /\ \A c, r : Agree(c, r)' <=> Agree(c, r)
        /\ \A f, c, r : Pending(f, c, r)' <=> Pending(f, c, r)
    BY <2>1, <2>2 DEF Agree, RoomsOf, Pending, RoomEvent, Past
  <2>5. QED
    BY <2>2, <2>3, <2>4 DEF DifferenceExplained
<1>4. QED
  BY <1>1, <1>2, <1>3, StepKinds

LEMMA AgreeInit == Init => AgreeInv
<1> SUFFICES ASSUME Init PROVE HalfWay /\ DifferenceExplained
  BY DEF AgreeInv
<1>1. /\ vehicle = [c \in Clients |-> NoRow] /\ members = [r \in Rooms |-> {}]
      /\ runs = [s \in Slots |-> Done]
  BY EmptySinkTyped DEF Init
<1>2. \A s \in Slots : ~Between(runs[s])
  BY <1>1 DEF Done, Between
<1>3. RoomsOf(NoRow) = {}
  BY DEF RoomsOf, NoRow
<1>4. QED
  BY <1>1, <1>2, <1>3 DEF HalfWay, DifferenceExplained, Agree

\* Once every event of the log is marked by every projection, the vehicle rows and the room
\* membership agree on who is in which room: for every log and either sink, in whatever order
\* batches come, and wherever the process stops, as long as no projection fails and one call
\* runs at a time.
THEOREM ReadModelsAlwaysAgree == Spec => []ReadModelsAgree
<1>1. AppliedInv => Shape
  BY DEF AppliedInv
<1>2. AgreeInv => ReadModelsAgree
  <2> SUFFICES ASSUME AgreeInv, Cardinality(Slots) = 1, ~SinkFails, \A e \in Log : IsProcessedByAll(e),
                      NEW c \in Clients, NEW r \in Rooms
               PROVE  r \in RoomsOf(vehicle[c]) <=> c \in members[r]
    BY DEF ReadModelsAgree
  <2>1. DifferenceExplained
    BY DEF AgreeInv, Steady, OneCall
  <2>2. \A e \in Log : <<"sequence", e>> \in processed
    <3>1. 4 \in 1 .. Len(Names) /\ Names[4] = "sequence"
      BY NamesPlaces
    <3>2. QED
      BY <3>1 DEF IsProcessedByAll
  <2>3. Agree(c, r)
    BY <2>1, <2>2 DEF DifferenceExplained, Pending
  <2>4. QED
    BY <2>3 DEF Agree
<1>3. QED
  BY <1>1, <1>2, InitApplied, AppliedNext, TypedInit, TypedNext, LocationInit, LocationNext,
     MarksInit, MarksNext, AgreeInit, AgreeNext, PTL DEF Spec

===============================================================================

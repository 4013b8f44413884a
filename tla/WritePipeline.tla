---------------------------- MODULE WritePipeline ----------------------------
(***************************************************************************)
(* The write path and the lifecycle of the PostgreSQL storage adapter: a   *)
(* bounded buffer that drops its oldest events, flushes that are started   *)
(* by size or by a timer and that interleave at every await, lazy          *)
(* initialisation, and close() with its final flush.                       *)
(*                                                                         *)
(* Events are numbered in the order in which writeBatch() accepts them.    *)
(***************************************************************************)
EXTENDS Naturals, Sequences, FiniteSets, SequencesExt, FiniteSetsExt

CONSTANTS BatchSize,      \* batchSize
          MaxBufferSize,  \* maxBufferSize
          Flushes,        \* calls of _flush() that may be under way at once,
          FinalFlush,     \* and the one of them that close() makes
          MaxEvents,      \* bound on the accepted events
          MaxWrite        \* bound on the events of one writeBatch()

ASSUME PipelineAssumption ==
    /\ BatchSize \in Nat \ {0} /\ MaxBufferSize \in Nat /\ MaxEvents \in Nat /\ MaxWrite \in Nat
    /\ FinalFlush \in Flushes

VARIABLES healthy,    \* the database rejects nothing, in this behaviour
          buffer,     \* _buffer
          dropped,    \* storage_dropped_events_total
          flushing,   \* _flushing
          flushes,    \* _flush() calls: where they wait, and with which batch
          init,       \* _initPromise: none, importing, connecting, ready or failed
          pool,       \* _pool: none (null), open, or ended
          timer,      \* _flushTimer is armed
          closing,    \* close(): open (not called), flushing, draining or closed
          accepted,   \* history: number of accepted events
          inserted,   \* history: events in the table, in the order of their insertion
          lost        \* history: events of rejected inserts

lifecycle == <<init, pool, timer, closing>>
vars == <<healthy, buffer, dropped, flushing, flushes, lifecycle, accepted, inserted, lost>>

Idle == [at |-> "idle", batch |-> <<>>]

Init ==
    /\ healthy \in BOOLEAN
    /\ buffer = <<>> /\ dropped = 0
    /\ flushing = FALSE /\ flushes = [f \in Flushes |-> Idle]
    /\ init = "none" /\ pool = "none" /\ timer = FALSE /\ closing = "open"
    /\ accepted = 0 /\ inserted = <<>> /\ lost = {}

\* Faulty variant: a flush under way does not keep another one from starting.
StartFlushAnyway(events) ==
    IF events = <<>>
    THEN UNCHANGED <<flushing, flushes>>
    ELSE \E f \in Flushes \ {FinalFlush} :
            /\ flushes[f] = Idle
            /\ flushes' = [flushes EXCEPT ![f].at = "init"]
            /\ flushing' = TRUE

\* _flush() up to its first await: nothing to do unless it is the only one and finds events.
StartFlush(events) ==
    IF flushing \/ events = <<>>
    THEN UNCHANGED <<flushing, flushes>>
    ELSE \E f \in Flushes \ {FinalFlush} :
            /\ flushes[f] = Idle
            /\ flushes' = [flushes EXCEPT ![f].at = "init"]
            /\ flushing' = TRUE

\* What is left of an overflowing buffer.
Kept(events) == SubSeq(events, Len(events) - MaxBufferSize + 1, Len(events))

WriteBatch(n) ==
    LET pushed == buffer \o [k \in 1 .. n |-> accepted + k]
        excess == IF Len(pushed) > MaxBufferSize THEN Len(pushed) - MaxBufferSize ELSE 0
        left == IF excess > 0 THEN Kept(pushed) ELSE pushed
    IN  /\ closing = "open" /\ accepted + n <= MaxEvents
        /\ accepted' = accepted + n
        /\ buffer' = left
        /\ dropped' = dropped + excess
        /\ IF Len(left) >= BatchSize THEN StartFlush(left) ELSE UNCHANGED <<flushing, flushes>>
        /\ init' = IF init = "none" THEN "importing" ELSE init
        /\ UNCHANGED <<healthy, pool, timer, closing, inserted, lost>>

TimerFires ==
    /\ timer /\ buffer # <<>> /\ ~flushing
    /\ StartFlush(buffer)
    /\ UNCHANGED <<healthy, buffer, dropped, lifecycle, accepted, inserted, lost>>

-----------------------------------------------------------------------------
(* Initialisation. *)

\* The import of pg has resolved and the pool exists.
PoolCreated ==
    /\ init = "importing"
    /\ init' = "connecting" /\ pool' = "open"
    /\ UNCHANGED <<healthy, buffer, dropped, flushing, flushes, timer, closing, accepted, inserted, lost>>

\* The schema is there; the flush timer is armed whether or not close() was called meanwhile.
InitReady ==
    /\ init = "connecting"
    /\ init' = "ready" /\ timer' = TRUE
    /\ UNCHANGED <<healthy, buffer, dropped, flushing, flushes, pool, closing, accepted, inserted, lost>>

\* A rejected initialisation is kept and never tried again.
InitRejected ==
    /\ ~healthy /\ init \in {"importing", "connecting"}
    /\ init' = "failed"
    /\ UNCHANGED <<healthy, buffer, dropped, flushing, flushes, pool, timer, closing, accepted, inserted, lost>>

-----------------------------------------------------------------------------
(* Flushing. *)

\* Faulty variant: the events of a batch stay in the buffer while they are inserted.
RestWhole(events) == events

Rest(events) == IF Len(events) > BatchSize THEN SubSeq(events, BatchSize + 1, Len(events)) ELSE <<>>
FirstBatch(events) == SubSeq(events, 1, Min({BatchSize, Len(events)}))

\* The loop of _flush() from the test of its condition to the next await. A query on a pool
\* that is gone is rejected like a failed insert.
Loops(f) ==
    IF buffer = <<>>
    THEN /\ flushes' = [flushes EXCEPT ![f] = Idle]
         /\ flushing' = FALSE
         /\ UNCHANGED <<buffer, lost>>
    ELSE /\ buffer' = Rest(buffer)
         /\ IF pool = "open"
            THEN /\ flushes' = [flushes EXCEPT ![f] = [at |-> "insert", batch |-> FirstBatch(buffer)]]
                 /\ UNCHANGED <<flushing, lost>>
            ELSE /\ flushes' = [flushes EXCEPT ![f] = Idle]
                 /\ flushing' = FALSE
                 /\ lost' = lost \cup ToSet(FirstBatch(buffer))

\* Faulty variant: the flag stays set when a flush fails.
FailsAndHolds(f) ==
    /\ flushes' = [flushes EXCEPT ![f] = Idle]
    /\ UNCHANGED flushing

Fails(f) ==
    /\ flushes' = [flushes EXCEPT ![f] = Idle]
    /\ flushing' = FALSE

\* Initialisation has settled and the flush goes on or is rejected with it.
FlushResumes(f) ==
    /\ flushes[f].at = "init"
    /\ \/ init = "ready" /\ Loops(f)
       \/ init = "failed" /\ Fails(f) /\ UNCHANGED <<buffer, lost>>
    /\ UNCHANGED <<healthy, dropped, lifecycle, accepted, inserted>>

InsertSucceeds(f) ==
    /\ flushes[f].at = "insert"
    /\ inserted' = inserted \o flushes[f].batch
    /\ Loops(f)
    /\ UNCHANGED <<healthy, dropped, lifecycle, accepted>>

\* The batch has left the buffer and is not put back.
InsertRejected(f) ==
    /\ ~healthy /\ flushes[f].at = "insert"
    /\ lost' = lost \cup ToSet(flushes[f].batch)
    /\ Fails(f)
    /\ UNCHANGED <<healthy, buffer, dropped, lifecycle, accepted, inserted>>

-----------------------------------------------------------------------------
(* close(). *)

\* Faulty variant: no final flush while another flush is under way.
CloseWhileFlushing ==
    /\ closing = "open"
    /\ timer' = FALSE
    /\ IF buffer # <<>> /\ pool = "open" /\ ~flushing
       THEN /\ flushes' = [flushes EXCEPT ![FinalFlush].at = "init"]
            /\ flushing' = TRUE
            /\ closing' = "flushing"
            /\ UNCHANGED pool
       ELSE /\ closing' = IF pool = "open" THEN "draining" ELSE "closed"
            /\ pool' = IF pool = "open" THEN "ended" ELSE pool
            /\ UNCHANGED <<flushing, flushes>>
    /\ UNCHANGED <<healthy, buffer, dropped, init, accepted, inserted, lost>>

\* close() to its first await. A flush under way does not keep it from starting another one,
\* and without a pool there is nothing it waits for.
Close ==
    /\ closing = "open"
    /\ timer' = FALSE
    /\ IF buffer # <<>> /\ pool = "open"
       THEN /\ flushes' = [flushes EXCEPT ![FinalFlush].at = "init"]
            /\ flushing' = TRUE
            /\ closing' = "flushing"
            /\ UNCHANGED pool
       ELSE /\ closing' = IF pool = "open" THEN "draining" ELSE "closed"
            /\ pool' = IF pool = "open" THEN "ended" ELSE pool
            /\ UNCHANGED <<flushing, flushes>>
    /\ UNCHANGED <<healthy, buffer, dropped, init, accepted, inserted, lost>>

\* The final flush has returned or was rejected.
Drain ==
    /\ closing = "flushing" /\ flushes[FinalFlush] = Idle
    /\ closing' = "draining" /\ pool' = "ended"
    /\ UNCHANGED <<healthy, buffer, dropped, flushing, flushes, init, timer, accepted, inserted, lost>>

\* pool.end() waits for the clients in use.
PoolEnded ==
    /\ closing = "draining" /\ init # "connecting"
    /\ \A f \in Flushes : flushes[f].at # "insert"
    /\ closing' = "closed" /\ pool' = "none"
    /\ UNCHANGED <<healthy, buffer, dropped, flushing, flushes, init, timer, accepted, inserted, lost>>

FlushSteps == \E f \in Flushes : FlushResumes(f) \/ InsertSucceeds(f) \/ InsertRejected(f)
InitSteps == PoolCreated \/ InitReady \/ InitRejected

Next ==
    \/ \E n \in 1 .. MaxWrite : WriteBatch(n)
    \/ TimerFires \/ InitSteps \/ FlushSteps
    \/ Close \/ Drain \/ PoolEnded

Spec == Init /\ [][Next]_vars

\* Intervals fire, and promises settle.
FairSpec == Spec /\ WF_vars(TimerFires) /\ WF_vars(InitSteps) /\ WF_vars(FlushSteps)

-----------------------------------------------------------------------------
InFlight == UNION {ToSet(flushes[f].batch) : f \in Flushes}

\* Every accepted event is in one place: the buffer, one batch on its way, the table (once),
\* a rejected insert or the drop counter, also when close() starts a second flush; and the
\* buffer stays within its limit.
EventsConserved ==
    /\ \A s \in {buffer, inserted} \cup {flushes[f].batch : f \in Flushes} : IsInjective(s)
    /\ \A f, g \in Flushes : f # g => ToSet(flushes[f].batch) \cap ToSet(flushes[g].batch) = {}
    /\ ToSet(buffer) \cap InFlight = {}
    /\ (ToSet(buffer) \cup InFlight) \cap ToSet(inserted) = {}
    /\ (ToSet(buffer) \cup InFlight \cup ToSet(inserted)) \cap lost = {}
    /\ Cardinality(ToSet(buffer) \cup InFlight \cup ToSet(inserted) \cup lost) + dropped = accepted
    /\ Len(buffer) <= MaxBufferSize

\* Until close() events are inserted in the order in which they were accepted, and one
\* insert at a time.
InsertedInOrder ==
    closing = "open" =>
        /\ \A m, n \in 1 .. Len(inserted) : m < n => inserted[m] < inserted[n]
        /\ Cardinality({f \in Flushes : flushes[f] # Idle}) <= 1
        /\ \A e \in ToSet(inserted), b \in InFlight \cup ToSet(buffer) : e < b

\* With a database that rejects nothing, a close() that found the pool leaves every accepted
\* event in the table or in the drop counter: no flush is caught with a batch by the end of
\* the pool.
CloseDrains ==
    healthy /\ closing = "closed" /\ pool = "none" /\ init = "ready" => Len(inserted) + dropped = accepted

\* An event does not stay in the buffer for ever while the adapter is open and could be
\* initialised, although flushes fail.
BufferMoves ==
    \A e \in 1 .. MaxEvents :
        e \in ToSet(buffer) ~> e \notin ToSet(buffer) \/ closing # "open" \/ init = "failed"
=============================================================================

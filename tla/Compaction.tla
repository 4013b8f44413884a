----------------------------- MODULE Compaction -----------------------------
(***************************************************************************)
(* Compaction of the PostgreSQL storage adapter: expired day partitions    *)
(* are dropped, then recent raw events are rolled up into minutes, recent  *)
(* minutes into hours and recent hours into days, and each tier is         *)
(* trimmed. Every phase is a query of its own that may fail while events   *)
(* keep arriving and time passes. Queries read the tier of their           *)
(* resolution.                                                             *)
(***************************************************************************)
EXTENDS MemoryAdapter

CONSTANTS M1Window, H1Window, D1Window,  \* what each phase looks back at: 24 h, 7 and 90 days
          Configured,    \* retention of the constructor: days of raw, ticks of the other tiers
          Defaults,      \* retention of the default parameters of compact()
          PhaseFails,    \* TRUE: a query may be rejected
          MaxLate,       \* bound on the age of an event when it is inserted
          MaxAhead,      \* how far its time may lie ahead: MAX_TIMESTAMP_SKEW_MS
          MaxNow,        \* bound on the clock
          MaxStored      \* bound on the inserted events

ASSUME TierAssumption ==
    /\ M1Window \in Nat /\ H1Window \in Nat /\ D1Window \in Nat
    /\ M1Window <= H1Window /\ M1Window <= D1Window
    /\ MaxLate \in Nat /\ MaxAhead \in Nat /\ MaxNow \in Nat /\ MaxStored \in Nat /\ PhaseFails \in BOOLEAN
    /\ {Configured, Defaults} \subseteq [raw : Nat, m1 : Nat, h1 : Nat, d1 : Nat]

VARIABLES now,       \* the clock of the gateway and of the database
          raw,       \* location_events: events per timestamp
          m1, h1, d1,\* location_events_1m, _1h and _1d
          phase,     \* the query that compact() waits for, or "idle"
          using,     \* the retention this run works with
          stored,    \* history: events ever inserted, per timestamp
          undisturbed\* history: nothing arrived or failed and no time passed since the latest
                     \* run started

tiers == <<m1, h1, d1>>
compactionVars == <<now, raw, tiers, phase, using, stored, undisturbed>>

CompactionInit ==
    /\ now = 0
    /\ raw = NoRows /\ stored = NoRows
    /\ m1 = NoRows /\ h1 = NoRows /\ d1 = NoRows
    /\ phase = "idle" /\ using = Defaults /\ undisturbed = FALSE

Plus(rows, t) == [x \in DOMAIN rows \cup {t} |-> IF x \notin DOMAIN rows THEN 1
                                                 ELSE IF x = t THEN rows[x] + 1 ELSE rows[x]]

\* A flushed batch brings an event taken at time t by a clock that may go ahead.
InsertEvent(t) ==
    /\ t <= now + MaxAhead /\ t + MaxLate >= now /\ Total(stored) < MaxStored
    /\ raw' = Plus(raw, t) /\ stored' = Plus(stored, t)
    /\ undisturbed' = FALSE
    /\ UNCHANGED <<now, tiers, phase, using>>

Tick ==
    /\ now < MaxNow
    /\ now' = now + 1
    /\ undisturbed' = FALSE
    /\ UNCHANGED <<raw, tiers, phase, using, stored>>

\* The scheduler calls compact() without arguments, so the default parameters count; other
\* callers pass an options object, whose missing fields are those of the constructor.
Start(retention) ==
    /\ phase = "idle"
    /\ phase' = "drop" /\ using' = retention /\ undisturbed' = TRUE
    /\ UNCHANGED <<now, raw, tiers, stored>>

\* Start of the oldest day whose partition is kept.
CutoffDay(days) == Trunc(now, Day) - days * Day

DropPartitions ==
    /\ phase = "drop"
    /\ raw' = From(raw, CutoffDay(using.raw))
    /\ phase' = "m1"
    /\ UNCHANGED <<now, tiers, using, stored, undisturbed>>

\* Faulty variant: the point counts of a row that is there already are added to.
UpsertAdds(table, rows) ==
    [b \in DOMAIN table \cup DOMAIN rows |->
        (IF b \in DOMAIN table THEN table[b] ELSE 0) + (IF b \in DOMAIN rows THEN rows[b] ELSE 0)]

\* ON CONFLICT (room_id, bucket) DO UPDATE.
Upsert(table, rows) ==
    [b \in DOMAIN table \cup DOMAIN rows |-> IF b \in DOMAIN rows THEN rows[b] ELSE table[b]]

\* Faulty variant: the minute under way is not in the window.
Downsample1mEndsEarly ==
    /\ phase = "m1"
    /\ m1' = Upsert(m1, Rollup(Between(raw, now - M1Window, now), Minute))
    /\ phase' = "h1"
    /\ UNCHANGED <<now, raw, h1, d1, using, stored, undisturbed>>

\* Each phase takes its window from the clock, not from the edge of a bucket.
Downsample1m ==
    /\ phase = "m1"
    /\ m1' = Upsert(m1, Rollup(Between(raw, now - M1Window, now + Minute), Minute))
    /\ phase' = "h1"
    /\ UNCHANGED <<now, raw, h1, d1, using, stored, undisturbed>>

Aggregate1h ==
    /\ phase = "h1"
    /\ h1' = Upsert(h1, Rollup(Between(m1, now - H1Window, now + Hour), Hour))
    /\ phase' = "d1"
    /\ UNCHANGED <<now, raw, m1, d1, using, stored, undisturbed>>

Aggregate1d ==
    /\ phase = "d1"
    /\ d1' = Upsert(d1, Rollup(Between(h1, now - D1Window, now + Day), Day))
    /\ phase' = "trim1m"
    /\ UNCHANGED <<now, raw, m1, h1, using, stored, undisturbed>>

Trim1m ==
    /\ phase = "trim1m"
    /\ m1' = From(m1, now - using.m1)
    /\ phase' = "trim1h"
    /\ UNCHANGED <<now, raw, h1, d1, using, stored, undisturbed>>

\* Faulty variant: hours are trimmed with the retention of the minutes.
Trim1hAsMinutes ==
    /\ phase = "trim1h"
    /\ h1' = From(h1, now - using.m1)
    /\ phase' = "trim1d"
    /\ UNCHANGED <<now, raw, m1, d1, using, stored, undisturbed>>

Trim1h ==
    /\ phase = "trim1h"
    /\ h1' = From(h1, now - using.h1)
    /\ phase' = "trim1d"
    /\ UNCHANGED <<now, raw, m1, d1, using, stored, undisturbed>>

Trim1d ==
    /\ phase = "trim1d"
    /\ d1' = From(d1, now - using.d1)
    /\ phase' = "idle"
    /\ UNCHANGED <<now, raw, m1, h1, using, stored, undisturbed>>

\* A rejected query is logged and the run goes on; the three trims share one handler.
AfterFailure(at) ==
    CASE at = "drop" -> "m1" [] at = "m1" -> "h1" [] at = "h1" -> "d1" [] at = "d1" -> "trim1m"
      [] OTHER -> "idle"

QueryRejected ==
    /\ PhaseFails /\ phase # "idle"
    /\ phase' = AfterFailure(phase) /\ undisturbed' = FALSE
    /\ UNCHANGED <<now, raw, tiers, using, stored>>

\* The table that queries of a resolution read.
TierOf(resolved) ==
    CASE resolved = "raw" -> raw [] resolved = "m1" -> m1 [] resolved = "h1" -> h1 [] resolved = "d1" -> d1

\* queryRoom(): rows whose start is in the range, from the tier of the resolution.
QueryRoom(from, to, resolution) == Between(TierOf(Resolved(resolution, from, to)), from, to + 1)

Phases == DropPartitions \/ Downsample1m \/ Aggregate1h \/ Aggregate1d \/ Trim1m \/ Trim1h \/ Trim1d

CompactionNext ==
    \/ Tick \/ Phases \/ QueryRejected
    \/ \E t \in 0 .. (now + MaxAhead) : InsertEvent(t)
    \/ \E retention \in {Defaults, Configured} : Start(retention)

CompactionSpec == CompactionInit /\ [][CompactionNext]_compactionVars

-----------------------------------------------------------------------------
Counted(b, size) == Total(Between(stored, b, b + size))

\* Rows never count an event twice, however often phases overlap, fail and run again.
NeverOvercounts ==
    /\ \A b \in DOMAIN m1 : m1[b] <= Counted(b, Minute)
    /\ \A b \in DOMAIN h1 : h1[b] <= Counted(b, Hour)
    /\ \A b \in DOMAIN d1 : d1[b] <= Counted(b, Day)

\* The retention that holds whoever calls compact(): the shorter of the configured one and
\* the defaults.
Promised(tier) == Min({Configured[tier], Defaults[tier]})

\* No run, late, repeated or half failed, drops anything before the shorter retention ends:
\* partitions go by whole days although an expiry falls inside one, and a rollup outlives the
\* raw events and the finer rows it was made of.
RetentionKept ==
    [][/\ \A t \in DOMAIN stored : t >= now' - Promised("raw") * Day => t \in DOMAIN raw' /\ raw'[t] >= stored[t]
       /\ \A b \in DOMAIN m1 : b >= now' - Promised("m1") => b \in DOMAIN m1'
       /\ \A b \in DOMAIN h1 : b >= now' - Promised("h1") => b \in DOMAIN h1'
       /\ \A b \in DOMAIN d1 : b >= now' - Promised("d1") => b \in DOMAIN d1']_compactionVars

\* Ranges of whole buckets that the look-back window of the first rollup covers.
WholeBuckets(from, to, resolution) ==
    LET size == IF resolution = "raw" THEN 1 ELSE Size[resolution]
    IN  from >= now - M1Window /\ from <= to /\ from % size = 0 /\ (to + 1) % size = 0

\* After an undisturbed run both adapters hold the same rows and answer alike for the time of
\* the look-back window, whatever the resolution, although one has tiers that grow from run to
\* run and drops raw events by days, and the other groups the events it still has.
AdaptersAgree ==
    phase = "idle" /\ undisturbed =>
        LET memory == MemoryCompact(stored, now, using)
            recent(rows) == From(rows, now - M1Window)
        IN  /\ <<recent(raw), recent(m1), recent(h1), recent(d1)>> =
                 <<recent(memory.raw), recent(memory.m1), recent(memory.h1), recent(memory.d1)>>
            /\ \A from, to \in 0 .. (now + Day), resolution \in {"raw", "m1", "h1", "d1", "auto"} :
                 WholeBuckets(from, to, Resolved(resolution, from, to)) =>
                   QueryRoom(from, to, resolution) = MemoryQueryRoom(memory.raw, from, to, resolution)
=============================================================================

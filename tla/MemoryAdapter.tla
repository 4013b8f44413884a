---------------------------- MODULE MemoryAdapter ----------------------------
(***************************************************************************)
(* The in-memory storage adapter, which the tests use in place of          *)
(* PostgreSQL. compact() and queryRoom() are synchronous, so they are      *)
(* functions of the stored events and the clock. Coordinates are left out. *)
(***************************************************************************)
EXTENDS Tiers

CONSTANTS Minute, Hour, Day, Week    \* sizes of the buckets and of the longest range, in ticks

ASSUME SizeAssumption ==
    /\ Minute \in Nat \ {0} /\ Hour \in Nat \ {0} /\ Day \in Nat \ {0} /\ Week \in Nat
    /\ Hour % Minute = 0 /\ Day % Hour = 0

Size == [m1 |-> Minute, h1 |-> Hour, d1 |-> Day]

\* The resolution "auto" stands for, from the length of the range.
Resolved(resolution, from, to) ==
    CASE resolution # "auto" -> resolution
      [] resolution = "auto" /\ to - from < Hour -> "raw"
      [] resolution = "auto" /\ to - from >= Hour /\ to - from < Day -> "m1"
      [] resolution = "auto" /\ to - from >= Day /\ to - from < Week -> "h1"
      [] OTHER -> "d1"

ComputeDownsample1m(events) == Rollup(events, Minute)
ComputeAggregate1h(minutes) == Rollup(minutes, Hour)
ComputeAggregate1d(hours) == Rollup(hours, Day)

\* Expired events go first; each tier is then computed anew from the one before it, and
\* the tiers are trimmed at the end.
MemoryCompact(events, now, r) ==
    LET left == From(events, now - r.raw * Day)
        minutes == ComputeDownsample1m(left)
        hours == ComputeAggregate1h(minutes)
    IN  [raw |-> left,
         m1 |-> From(minutes, now - r.m1),
         h1 |-> From(hours, now - r.h1),
         d1 |-> From(ComputeAggregate1d(hours), now - r.d1)]

\* A query groups the events of the range; the tiers of compact() are not read.
MemoryQueryRoom(events, from, to, resolution) ==
    LET resolved == Resolved(resolution, from, to)
        filtered == Between(events, from, to + 1)
    IN  IF resolved = "raw" THEN filtered ELSE Rollup(filtered, Size[resolved])
=============================================================================

---------------------------- MODULE MCCompaction ----------------------------
(* Instances of the compaction of the SQL adapter for model checking. *)
EXTENDS Compaction

Retention(rawDays, minutes, hours, days) == [raw |-> rawDays, m1 |-> minutes, h1 |-> hours, d1 |-> days]

DefaultRetention == Retention(1, 12, 16, 18)

\* A user who keeps raw events longer and the rollups shorter.
UserRetention == Retention(2, 10, 14, 16)
=============================================================================

-------------------------------- MODULE Tiers --------------------------------
(***************************************************************************)
(* Rollups of one room's location events: tables from the start of a       *)
(* bucket to its point count. Every statement groups by room, so rooms do  *)
(* not meet. Coordinates, speeds and distances are left out.               *)
(***************************************************************************)
EXTENDS Integers, FiniteSets, FiniteSetsExt

\* date_trunc(), truncateToMinute(), truncateToHour(), truncateToDay().
Trunc(t, size) == (t \div size) * size

\* The rows of a table in a time range.
From(rows, lo) == [b \in {x \in DOMAIN rows : x >= lo} |-> rows[b]]
Between(rows, lo, hi) == [b \in {x \in DOMAIN rows : x >= lo /\ x < hi} |-> rows[b]]

\* The events a table counts, as pairs of a row and a number, and how many they are.
Points(rows) == UNION {{b} \X (1 .. rows[b]) : b \in DOMAIN rows}
Total(rows) == Cardinality(Points(rows))

\* GROUP BY bucket with the sum of the point counts.
Group(rows, size, b) == [t \in {x \in DOMAIN rows : Trunc(x, size) = b} |-> rows[t]]
Rollup(rows, size) == [b \in {Trunc(t, size) : t \in DOMAIN rows} |-> Total(Group(rows, size, b))]

NoRows == [b \in {} |-> 0]
=============================================================================

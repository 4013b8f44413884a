-------------------------------- MODULE LwwMap --------------------------------
(***************************************************************************)
(* The last-writer-wins map of src/multi-region.js (class LWWMap) and the  *)
(* vector clocks it compares.  A vector clock is a function on the region  *)
(* identifiers (a missing component counts as 0); an entry is the clock    *)
(* and the writer of a write, which identify the value it carries, and a   *)
(* delete is one more value.                                               *)
(***************************************************************************)
EXTENDS Naturals

CONSTANT NoEntry

\* vcMerge()
VcMerge(a, b) == [r \in DOMAIN a |-> IF a[r] > b[r] THEN a[r] ELSE b[r]]

\* vcIncrement()
VcIncrement(a, r) == [a EXCEPT ![r] = @ + 1]

\* vcCompare()
VcCompare(a, b) ==
  LET aGreater == \E r \in DOMAIN a : a[r] > b[r]
      bGreater == \E r \in DOMAIN a : b[r] > a[r]
  IN  IF aGreater /\ bGreater THEN "concurrent"
      ELSE IF aGreater THEN "after"
      ELSE IF bGreater THEN "before" ELSE "equal"

\* #winsOver()
WinsOver(a, b) ==
  LET order == VcCompare(a.clock, b.clock)
  IN  order = "after" \/ (order = "concurrent" /\ a.writer > b.writer)

\* #apply(): a local write, a replicated one, or an entry of a snapshot.
Winner(current, incoming) ==
  IF current = NoEntry \/ WinsOver(incoming, current) THEN incoming ELSE current

\* merge(), through toJSON() and fromJSON()
LwwMerge(m, other) ==
  [k \in DOMAIN m |-> IF other[k] = NoEntry THEN m[k] ELSE Winner(m[k], other[k])]
===============================================================================

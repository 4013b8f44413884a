---------------------------- MODULE LwwElementSet ----------------------------
(***************************************************************************)
(* The last-update-wins element set of src/multi-region.js (class          *)
(* LWWElementSet): per element the greatest add stamp and the greatest     *)
(* remove stamp.  A stamp is a clock reading and the writer's region; the  *)
(* definition that travels with an add is the one of its stamp.  Region    *)
(* identifiers are naturals in the order of the code's strings.            *)
(***************************************************************************)
EXTENDS HybridClock

CONSTANT NoStamp

Stamp == [hlc : Reading, regionId : Nat]

ASSUME StampAssumption == NoStamp \notin Stamp

\* compareStamps(a, b) < 0
StampBefore(a, b) ==
  \/ HlcBefore(a.hlc, b.hlc)
  \/ a.hlc = b.hlc /\ a.regionId < b.regionId

\* add() and remove() on one side of the set: the greater stamp stays.
Newest(current, stamp) ==
  IF current = NoStamp \/ StampBefore(current, stamp) THEN stamp ELSE current

EmptyElementSet(elems) ==
  [adds |-> [e \in elems |-> NoStamp], removes |-> [e \in elems |-> NoStamp]]

ElementAdd(s, elem, stamp) == [s EXCEPT !.adds[elem] = Newest(@, stamp)]
ElementRemove(s, elem, stamp) == [s EXCEPT !.removes[elem] = Newest(@, stamp)]

\* has(): the best add beats the best remove.
ElementHas(s, elem) ==
  /\ s.adds[elem] # NoStamp
  /\ s.removes[elem] # NoStamp => StampBefore(s.removes[elem], s.adds[elem])

\* One side of merge(): the other's stamps are added one by one.
MergeSide(mine, theirs) ==
  [e \in DOMAIN mine |->
     IF theirs[e] = NoStamp THEN mine[e] ELSE Newest(mine[e], theirs[e])]

\* merge(), through toJSON() and fromJSON()
ElementMerge(s, other) ==
  [adds |-> MergeSide(s.adds, other.adds), removes |-> MergeSide(s.removes, other.removes)]
===============================================================================

--------------------------------- MODULE OrSet ---------------------------------
(***************************************************************************)
(* The observed-remove set of src/multi-region.js (class ORSet).  `adds`   *)
(* holds <<element, tag>> pairs, `removes` the retired tags; neither ever  *)
(* shrinks.                                                                *)
(***************************************************************************)

EmptyOrSet == [adds |-> {}, removes |-> {}]

\* The tags recorded for an element, retired or not.
TagsOf(s, elem) == {p[2] : p \in {q \in s.adds : q[1] = elem}}

\* add() and applyAdd()
OrAdd(s, elem, tag) == [s EXCEPT !.adds = @ \cup {<<elem, tag>>}]

\* applyRemove(): retires exactly the listed tags, known here or not.
OrApplyRemove(s, tags) == [s EXCEPT !.removes = @ \cup tags]

\* remove(): retires every tag of the element this replica has observed.
OrRemove(s, elem) == OrApplyRemove(s, TagsOf(s, elem))

\* Faulty variant: one retired tag hides the element.
OrHasEvery(s, elem) ==
  /\ TagsOf(s, elem) # {}
  /\ \A tag \in TagsOf(s, elem) : tag \notin s.removes

\* has(): some tag is not retired.
OrHas(s, elem) == \E tag \in TagsOf(s, elem) : tag \notin s.removes

\* Faulty variant: a snapshot replaces the retired tags.
OrMergeReplaces(s, other) ==
  [adds |-> s.adds \cup other.adds, removes |-> other.removes]

\* merge(), through toJSON() and fromJSON()
OrMerge(s, other) ==
  [adds |-> s.adds \cup other.adds, removes |-> s.removes \cup other.removes]
===============================================================================

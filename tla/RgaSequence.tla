------------------------------ MODULE RgaSequence ------------------------------
(***************************************************************************)
(* The replicated growable array of src/multi-region.js (class             *)
(* RGASequence): a set of nodes, each naming the node it was inserted      *)
(* after, read in depth-first order with siblings sorted by message id.    *)
(* A message id is the record makeMessageId() formats: its fixed-width     *)
(* fields make the string order the lexicographic order of the fields.     *)
(***************************************************************************)
EXTENDS HybridClock, Sequences, FiniteSets

CONSTANT HeadId   \* the virtual head, originLeft = null

\* makeMessageId(): a reading, the region and its number.
MessageIds == [hlc : Reading, region : Nat, localSeq : Nat]

\* null is no message id.
ASSUME HeadAssumption == HeadId \notin MessageIds

\* compareMessageIds() on makeMessageId(): reading, then region, then number.
IdBefore(a, b) ==
  \/ HlcBefore(a.hlc, b.hlc)
  \/ a.hlc = b.hlc /\ a.region < b.region
  \/ a.hlc = b.hlc /\ a.region = b.region /\ a.localSeq < b.localSeq

\* Faulty variant: a node whose origin has not arrived is put at the head.
RgaInsertReparents(nodes, id, originLeft) ==
  LET left == IF \E n \in nodes : n.id = originLeft THEN originLeft ELSE HeadId
  IN  IF \E n \in nodes : n.id = id THEN nodes
      ELSE nodes \cup {[id |-> id, originLeft |-> left, tombstoned |-> FALSE]}

\* insert() of a node that is not tombstoned: a known id is left alone.
RgaInsert(nodes, id, originLeft) ==
  IF \E n \in nodes : n.id = id THEN nodes
  ELSE nodes \cup {[id |-> id, originLeft |-> originLeft, tombstoned |-> FALSE]}

\* remove(): a known node becomes a tombstone, an unknown one is ignored.
RgaRemove(nodes, id) ==
  {IF n.id = id THEN [n EXCEPT !.tombstoned = TRUE] ELSE n : n \in nodes}

\* merge(), through toJSON() and fromJSON(): a tombstone of either side stays.
RgaMerge(nodes, other) ==
  {n \in nodes \cup other :
     ~n.tombstoned => ~\E m \in nodes \cup other : m.id = n.id /\ m.tombstoned}

\* The nodes inserted after one node.
Bucket(nodes, parent) == {n \in nodes : n.originLeft = parent}

\* Faulty variant: siblings are sorted by their writer, not by the whole id.
ChildrenByWriter(nodes, parent) ==
  LET bucket == Bucket(nodes, parent)
      smaller(n) == {m \in bucket : \/ m.id.region < n.id.region
                                    \/ m.id.region = n.id.region /\ IdBefore(m.id, n.id)}
  IN  [i \in 1 .. Cardinality(bucket) |->
         CHOOSE n \in bucket : Cardinality(smaller(n)) = i - 1]

\* A bucket sorted by message id: the i-th has i - 1 smaller siblings.
Children(nodes, parent) ==
  LET bucket == Bucket(nodes, parent)
  IN  [i \in 1 .. Cardinality(bucket) |->
         CHOOSE n \in bucket :
           Cardinality({m \in bucket : IdBefore(m.id, n.id)}) = i - 1]

\* traverse(): one node is popped and yielded per step and its children are
\* pushed, the smallest on top.  Nodes whose origin is missing are not reached.
Traverse(nodes) ==
  LET step[k \in 0 .. Cardinality(nodes)] ==
        IF k = 0 THEN [stack |-> Children(nodes, HeadId), out |-> <<>>]
        ELSE LET s == step[k - 1]
             IN  IF s.stack = <<>> THEN s
                 ELSE [stack |-> Children(nodes, Head(s.stack).id) \o Tail(s.stack),
                       out |-> Append(s.out, Head(s.stack))]
  IN  step[Cardinality(nodes)].out

\* toArray(): the visible ids in the global order.
ToArray(nodes) ==
  LET all == Traverse(nodes)
      out[k \in 0 .. Len(all)] ==
        IF k = 0 THEN <<>>
        ELSE IF all[k].tombstoned THEN out[k - 1] ELSE Append(out[k - 1], all[k].id)
  IN  out[Len(all)]

\* Faulty variant: the last message by identifier.
LastVisibleGreatest(nodes) ==
  LET a == ToArray(nodes)
  IN  IF a = <<>> THEN HeadId
      ELSE CHOOSE id \in {a[i] : i \in 1 .. Len(a)} :
             \A i \in 1 .. Len(a) : ~IdBefore(id, a[i])

\* lastVisibleId(): the origin of a broadcast that does not name one.
LastVisible(nodes) ==
  LET a == ToArray(nodes) IN IF a = <<>> THEN HeadId ELSE a[Len(a)]

-------------------------------------------------------------------------------
(* A reference for the order, from the tree alone *)

\* a is on the path from b up to the head, b included: it is in every set of
\* ids that holds b and, with a node, its origin.
Above(nodes, a, b) ==
  LET parents == {n \in nodes : \E m \in nodes : m.id = n.originLeft}
  IN  \A S \in SUBSET {n.id : n \in nodes} :
        (b \in S /\ \A n \in parents : n.id \in S => n.originLeft \in S) => a \in S

\* Every origin of a node has arrived.
Rooted(nodes, id) ==
  \A n \in nodes : Above(nodes, n.id, id) =>
    n.originLeft = HeadId \/ \E m \in nodes : m.id = n.originLeft

\* a comes before b: it is above b, or their paths fork at siblings of which
\* the smaller leads to a.
ReferenceBefore(nodes, a, b) ==
  \/ a # b /\ Above(nodes, a, b)
  \/ \E m, n \in nodes :
       /\ m.originLeft = n.originLeft
       /\ IdBefore(m.id, n.id)
       /\ Above(nodes, m.id, a)
       /\ Above(nodes, n.id, b)
===============================================================================

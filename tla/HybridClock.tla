------------------------------ MODULE HybridClock ------------------------------
(***************************************************************************)
(* The hybrid logical clock of src/multi-region.js (class HLC): a reading  *)
(* is a physical part l and a logical counter c, ordered                   *)
(* lexicographically.  Both methods read Date.now() once (`wall`).         *)
(***************************************************************************)
EXTENDS Naturals

Reading == [l : Nat, c : Nat]

\* HLC.compare(a, b) < 0
HlcBefore(a, b) == a.l < b.l \/ (a.l = b.l /\ a.c < b.c)

\* now(): the wall clock when it has moved on, the next count otherwise.
HlcNow(h, wall) ==
  IF wall > h.l THEN [l |-> wall, c |-> 0] ELSE [l |-> h.l, c |-> h.c + 1]

\* receive(remote): the four branches in the order the code tests them.
HlcReceive(h, remote, wall) ==
  IF remote.l > h.l /\ remote.l > wall THEN [l |-> remote.l, c |-> remote.c + 1]
  ELSE IF wall > h.l THEN [l |-> wall, c |-> 0]
  ELSE IF h.l > remote.l THEN [l |-> h.l, c |-> h.c + 1]
  ELSE [l |-> h.l, c |-> (IF h.c > remote.c THEN h.c ELSE remote.c) + 1]
===============================================================================

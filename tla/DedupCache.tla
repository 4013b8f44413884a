------------------------------ MODULE DedupCache ------------------------------
(***************************************************************************)
(* The broadcast deduplication cache of RoomManager (_dedupCache and       *)
(* _isDuplicate, src/room-manager.js): a JavaScript Map from the key       *)
(* room:client:timestamp to the time the key was last recorded.            *)
(*                                                                         *)
(* A Map iterates in insertion order and keeps the place of a key that is  *)
(* set again, and the code evicts `keys().next()`, the first key of that   *)
(* order.  The cache is therefore a sequence of [key, at] records in       *)
(* insertion order, without two records of one key.                        *)
(***************************************************************************)
EXTENDS Integers, Sequences

\* The positions at which a key is recorded: none or one.
Places(cache, key) == {i \in 1 .. Len(cache) : cache[i].key = key}

\* Faulty variant: the last instant of the window is left out.
IsDuplicateStrict(cache, key, now, window) ==
  \E i \in Places(cache, key) : now - cache[i].at < window

\* A key recorded at most `window` ago is a duplicate and is not refreshed.
IsDuplicate(cache, key, now, window) ==
  \E i \in Places(cache, key) : now - cache[i].at <= window

\* Map.set: a known key keeps its place, a new one goes to the end.
SetKey(cache, key, now) ==
  IF Places(cache, key) # {}
  THEN [i \in 1 .. Len(cache) |->
          IF cache[i].key = key THEN [cache[i] EXCEPT !.at = now] ELSE cache[i]]
  ELSE Append(cache, [key |-> key, at |-> now])

\* The eviction of one key, the first in insertion order, when the cache is
\* over its cap.
EvictFirst(cache, cap) == IF Len(cache) > cap THEN Tail(cache) ELSE cache

\* What _isDuplicate leaves behind when it answers false.
Record(cache, key, now, cap) == EvictFirst(SetKey(cache, key, now), cap)
===============================================================================
